---------------------------- MODULE Spec2Model ----------------------------
(***************************************************************************)
(* Verification model of the structural-metadata layer of libjxl:          *)
(*   lib/jxl/codec_in_out.h  (DecoderHints, CodecInOut)                    *)
(*   lib/jxl/frame_header.h  (VisitNameString, YCbCrChromaSubsampling,     *)
(*                            FrameHeader, kOrderEnc)                      *)
(*   lib/jxl/image_bundle.h  (ImageBundle)                                 *)
(* The field-visitor engine (lib/jxl/fields.h) and the .cc bodies are      *)
(* modelled from the design specification, sections 4.1-4.3 and 7.         *)
(*                                                                         *)
(* The module holds one specification per component; every specification   *)
(* runs over the same variables and leaves the other components idle.      *)
(***************************************************************************)
EXTENDS Integers, Sequences, FiniteSets, TLC

VARIABLES
    \* CodecInOut decode limits and the last VerifyDimensions call
    dec_max_xsize, dec_max_ysize, dec_max_pixels, vd_ret,
    \* variable-width integer codec: one value through one U32Enc
    u32,
    \* VisitNameString: one name written and read back
    nm,
    \* a YCbCrChromaSubsampling and the last call made on it
    ycc, ycc_ret,
    \* DecoderHints: the stored pairs, the Add history, the last Foreach
    kv_, hints_log, hints_ret,
    \* a CodecInOut (preview, frames) and the last call made on it
    io, io_ret,
    \* a FrameHeader and the result of the last query made on it
    fh, fh_ret,
    \* the last WriteFrameHeader of fh and the last ReadFrameHeader of its bits
    fh_wr, fh_rd,
    \* CodecInOut objects by address and the last call made on one of them
    cios, cio_ret,
    \* an ImageBundle, the bundle Copy() returned, the pixel buffers, and the
    \* last call made on the bundle
    bundle, bundle_copy, heap, bundle_ret

vdVars  == <<dec_max_xsize, dec_max_ysize, dec_max_pixels, vd_ret>>
u32Vars == <<u32>>
nmVars  == <<nm>>
yccVars == <<ycc, ycc_ret>>
hintVars == <<kv_, hints_log, hints_ret>>
ioVars  == <<io, io_ret>>
fhVars  == <<fh, fh_ret, fh_wr, fh_rd>>
cioVars == <<cios, cio_ret>>
bundleVars == <<bundle, bundle_copy, heap, bundle_ret>>
vars    == <<dec_max_xsize, dec_max_ysize, dec_max_pixels, vd_ret, u32, nm,
             ycc, ycc_ret, kv_, hints_log, hints_ret, io, io_ret, fh, fh_ret,
             fh_wr, fh_rd, cios, cio_ret, bundle, bundle_copy, heap,
             bundle_ret>>

\* An optional value: None, or Some(x) whose content is Get(v).
None == <<>>
Some(x) == <<x>>
Get(v) == v[1]

RECURSIVE Pow2(_)
Pow2(n) == IF n = 0 THEN 1 ELSE 2 * Pow2(n - 1)

(***************************************************************************)
(* Integer widths.  TLC's integers are 32 bits wide, so uint32_t and       *)
(* uint64_t are modelled Bits32 and 2*Bits32 bits wide: the ratio of the   *)
(* two widths, which is what keeps uint64_t(xs) * ys from wrapping, is     *)
(* that of the program.                                                    *)
(***************************************************************************)
Bits32 == 2
Bits64 == 2 * Bits32
Max32  == Pow2(Bits32) - 1
Max64  == Pow2(Bits64) - 1

-----------------------------------------------------------------------------
(***************************************************************************)
(* CodecInOut::VerifyDimensions and the decode limits.                     *)
(***************************************************************************)

DimValues(T) == 0 .. (Pow2(T) - 1)


\* uint64_t(xs) * ys, in 64-bit unsigned arithmetic
NumPixels(xs, ys) == (xs * ys) % Pow2(Bits64)

\* VerifyDimensions without the "Image too wide" test
VerifyDimensionsNoWidthTest(xs, ys) ==
    IF xs = 0 \/ ys = 0 THEN FALSE
    ELSE IF ys > dec_max_ysize THEN FALSE
    ELSE IF NumPixels(xs, ys) > dec_max_pixels THEN FALSE
    ELSE TRUE

\* Status VerifyDimensions(T xs, T ys) const: TRUE is success
VerifyDimensions(xs, ys) ==
    IF xs = 0 \/ ys = 0 THEN FALSE
    ELSE IF xs > dec_max_xsize THEN FALSE
    ELSE IF ys > dec_max_ysize THEN FALSE
    ELSE IF NumPixels(xs, ys) > dec_max_pixels THEN FALSE
    ELSE TRUE

CodecInOutLimitsInit ==
    /\ dec_max_xsize = Max32
    /\ dec_max_ysize = Max32
    /\ dec_max_pixels = Max64

VDIdle == CodecInOutLimitsInit /\ vd_ret = None

\* A caller assigns the three public limit fields.
SetDecLimits ==
    /\ vd_ret = None
    /\ \E mx \in {0, 1, Max32 \div 2, Max32}, my \in {0, 1, Max32 \div 2, Max32},
          mp \in {0, 1, Max32, Max32 + 1, Max64} :
            /\ dec_max_xsize' = mx
            /\ dec_max_ysize' = my
            /\ dec_max_pixels' = mp
            /\ vd_ret' = None

\* A decoder calls VerifyDimensions<T>(xs, ys); the method is const.
CallVerifyDimensions ==
    /\ vd_ret = None
    /\ \E T \in {Bits32, Bits64} :
        \E xs \in DimValues(T), ys \in DimValues(T) :
            /\ vd_ret' = Some([T |-> T, xs |-> xs, ys |-> ys,
                               ok |-> VerifyDimensions(xs, ys),
                               before |-> <<dec_max_xsize, dec_max_ysize,
                                            dec_max_pixels>>])
            /\ UNCHANGED <<dec_max_xsize, dec_max_ysize, dec_max_pixels>>

\* The caller consumes the returned Status.
VerifyDimensionsReturn ==
    /\ vd_ret # None
    /\ vd_ret' = None
    /\ UNCHANGED <<dec_max_xsize, dec_max_ysize, dec_max_pixels>>


\* C1: VerifyDimensions(xs, ys) succeeds exactly when xs # 0, ys # 0,
\* xs <= dec_max_xsize, ys <= dec_max_ysize and the mathematical (unwrapped)
\* product xs*ys <= dec_max_pixels, for every setting of the three limits;
\* (0,n), (n,0), (dec_max_xsize+1,n) and over-area pairs fail, (1,1) succeeds
\* whenever the limits admit it, and the call leaves the limits as they were.
C1_VerifyDimensionsIff ==
    vd_ret # None =>
        LET r == Get(vd_ret) IN
        /\ r.ok = ( /\ r.xs # 0
                    /\ r.ys # 0
                    /\ r.xs <= dec_max_xsize
                    /\ r.ys <= dec_max_ysize
                    /\ r.xs * r.ys <= dec_max_pixels )
        /\ (r.xs = 0 \/ r.ys = 0) => ~r.ok
        /\ r.xs = dec_max_xsize + 1 => ~r.ok
        /\ r.xs * r.ys > dec_max_pixels => ~r.ok
        /\ ( /\ r.xs = 1 /\ r.ys = 1
             /\ dec_max_xsize >= 1 /\ dec_max_ysize >= 1
             /\ dec_max_pixels >= 1 ) => r.ok
        /\ r.before = <<dec_max_xsize, dec_max_ysize, dec_max_pixels>>

\* C1 witness: a size_t call whose product exceeds the pixel limit although
\* both dimensions are within theirs, rejected; the limits are not the defaults.
C1_Witness ==
    /\ vd_ret # None
    /\ Get(vd_ret).T = Bits64
    /\ Get(vd_ret).xs <= dec_max_xsize /\ Get(vd_ret).ys <= dec_max_ysize
    /\ Get(vd_ret).xs * Get(vd_ret).ys > dec_max_pixels
    /\ dec_max_pixels > 1
    /\ ~Get(vd_ret).ok

-----------------------------------------------------------------------------
(***************************************************************************)
(* Bit streams (BitWriter / BitReader): a sequence of bits, least          *)
(* significant bit of every field first.                                   *)
(***************************************************************************)

\* the n low bits of v, least significant first
ToBits(v, n) == [i \in 1 .. n |-> (v \div Pow2(i - 1)) % 2]

\* the n-bit value that starts at position pos (1-based) of stream
RECURSIVE FromBits(_, _, _)
FromBits(stream, pos, n) ==
    IF n = 0 THEN 0
    ELSE stream[pos] + 2 * FromBits(stream, pos + 1, n - 1)

\* whether n more bits can be read at pos
CanRead(stream, pos, n) == pos + n - 1 <= Len(stream)

(***************************************************************************)
(* Variable-width integer codec (U32Enc / U32Coder).  A U32Enc is four     *)
(* distributions; a 2-bit selector names the one used.                     *)
(***************************************************************************)

\* a constant: no payload bits
Val(v) == [direct |-> TRUE, value |-> v, nbits |-> 0, offset |-> 0]
\* an n-bit raw value plus a fixed offset
BitsOffset(n, off) == [direct |-> FALSE, value |-> 0, nbits |-> n, offset |-> off]
\* an n-bit raw value
Bits(n) == BitsOffset(n, 0)

U32Enc(d0, d1, d2, d3) == <<d0, d1, d2, d3>>

\* whether distribution d can represent v
DistrContains(d, v) ==
    IF d.direct THEN v = d.value
    ELSE v >= d.offset /\ v < d.offset + Pow2(d.nbits)

kNumSelectors == 4

\* U32Coder::ChooseSelector: tries the distributions from selector s on, in
\* selector order, and returns the first that holds v; kNumSelectors if none.
RECURSIVE ChooseSelector(_, _, _)
ChooseSelector(enc, v, s) ==
    IF s = kNumSelectors THEN kNumSelectors
    ELSE IF DistrContains(enc[s + 1], v) THEN s
    ELSE ChooseSelector(enc, v, s + 1)

\* U32Coder::Write: selector, then the payload; fails when no distribution
\* holds the value.
U32Write(enc, v) ==
    LET s == ChooseSelector(enc, v, 0) IN
    IF s = kNumSelectors
    THEN [ok |-> FALSE, selector |-> s, bits |-> <<>>]
    ELSE LET d == enc[s + 1] IN
         [ok |-> TRUE, selector |-> s,
          bits |-> ToBits(s, 2) \o
                   (IF d.direct THEN <<>> ELSE ToBits(v - d.offset, d.nbits))]

\* U32Coder::Read at pos: [ok, value, pos after the field]
U32Read(enc, stream, pos) ==
    IF ~CanRead(stream, pos, 2) THEN [ok |-> FALSE, value |-> 0, pos |-> pos]
    ELSE LET d == enc[FromBits(stream, pos, 2) + 1] IN
         IF d.direct THEN [ok |-> TRUE, value |-> d.value, pos |-> pos + 2]
         ELSE IF ~CanRead(stream, pos + 2, d.nbits)
         THEN [ok |-> FALSE, value |-> 0, pos |-> pos]
         ELSE [ok |-> TRUE,
               value |-> d.offset + FromBits(stream, pos + 2, d.nbits),
               pos |-> pos + 2 + d.nbits]

\* lib/jxl/coeff_order_fwd.h
kNumOrders == 13

\* the name-length encoding with the third distribution written Bits(5)
NameLengthEncNoOffset == U32Enc(Val(0), Bits(4), Bits(5), BitsOffset(10, 48))

\* VisitNameString's U32 encoding of name_length
kNameLengthEnc == U32Enc(Val(0), Bits(4), BitsOffset(5, 16), BitsOffset(10, 48))

\* 0x5F = 95, 0x13 = 19
kOrderEnc == U32Enc(Val(95), Val(19), Val(0), Bits(kNumOrders))

\* largest name length kNameLengthEnc is declared for
kMaxNameLength == 1071

U32Encodings == {"name_length", "order"}

EncOf(which) == IF which = "name_length" THEN kNameLengthEnc ELSE kOrderEnc

\* How far past the largest representable value the checked values go.
ExtraValues == 4

U32Values(which) ==
    IF which = "name_length" THEN 0 .. (kMaxNameLength + ExtraValues)
    ELSE 0 .. (Pow2(kNumOrders) - 1 + ExtraValues)

U32Idle == u32 = None

\* an encoder holds a value to write through one of the two encodings
U32Init ==
    \E which \in U32Encodings :
        \E v \in U32Values(which) :
            u32 = Some([enc |-> which, value |-> v, phase |-> "value",
                        ok |-> FALSE, selector |-> 0, bits |-> <<>>,
                        rd_ok |-> FALSE, rd_value |-> 0, rd_pos |-> 0])

\* the value is written (visitor->U32 in the writing direction)
U32Encode ==
    /\ u32 # None
    /\ Get(u32).phase = "value"
    /\ LET w == U32Write(EncOf(Get(u32).enc), Get(u32).value) IN
       u32' = Some([Get(u32) EXCEPT !.phase = "written", !.ok = w.ok,
                                   !.selector = w.selector, !.bits = w.bits])

\* the written bits are read back (visitor->U32 in the reading direction)
U32Decode ==
    /\ u32 # None
    /\ Get(u32).phase = "written"
    /\ Get(u32).ok
    /\ LET r == U32Read(EncOf(Get(u32).enc), Get(u32).bits, 1) IN
       u32' = Some([Get(u32) EXCEPT !.phase = "read", !.rd_ok = r.ok,
                                   !.rd_value = r.value, !.rd_pos = r.pos])

\* The selector the declared encodings are expected to give each value.
ExpectedSelector(which, v) ==
    IF which = "name_length"
    THEN IF v = 0 THEN 0
         ELSE IF v <= 15 THEN 1
         ELSE IF v <= 47 THEN 2
         ELSE IF v <= 1071 THEN 3
         ELSE 4
    ELSE IF v = 95 THEN 0
         ELSE IF v = 19 THEN 1
         ELSE IF v = 0 THEN 2
         ELSE IF v < Pow2(kNumOrders) THEN 3
         ELSE 4

\* C3: for the name-length and coefficient-order encodings, a value some
\* variant can represent is written with the lowest-indexed variant whose
\* range contains it (0 always with the constant, never with Bits), reading
\* the selector and payload back returns the value and consumes exactly the
\* bits written, and a value no variant represents (a name length above 1071)
\* is an encoding failure.
C3_U32RoundTrip ==
    (u32 # None /\ Get(u32).phase # "value") =>
        LET r == Get(u32)
            enc == EncOf(r.enc)
            fits == {s \in 1 .. 4 : DistrContains(enc[s], r.value)}
        IN  /\ r.ok = (fits # {})
            /\ r.ok => /\ (r.selector + 1) \in fits
                       /\ \A s \in fits : r.selector + 1 <= s
                       /\ r.selector = ExpectedSelector(r.enc, r.value)
                       /\ Len(r.bits) = 2 + enc[r.selector + 1].nbits
            /\ ~r.ok => ExpectedSelector(r.enc, r.value) = 4
            /\ (r.enc = "name_length") => (r.ok = (r.value <= 1071))
            /\ r.phase = "read" => /\ r.rd_ok
                                   /\ r.rd_value = r.value
                                   /\ r.rd_pos = Len(r.bits) + 1

\* C3 witness: name length 1071, the largest, written with selector 3 and
\* read back.
C3_Witness ==
    /\ u32 # None
    /\ Get(u32).enc = "name_length"
    /\ Get(u32).value = 1071
    /\ Get(u32).phase = "read"
    /\ Get(u32).selector = 3
    /\ Get(u32).rd_value = 1071

-----------------------------------------------------------------------------
(***************************************************************************)
(* VisitNameString.  A std::string is a sequence of bytes 0..255 (the      *)
(* object representation of its chars).  Whether plain char is signed is   *)
(* implementation-defined: char_signed is fixed per build.  A uint32_t is  *)
(* kept as [hi, lo] with value hi * 256 + lo, so that 0xFFFFFF80 is        *)
(* representable.                                                          *)
(***************************************************************************)
kHighAllOnes == 16777215

\* uint32_t c = (*name)[i]: integral conversion of a char to uint32_t
CharToU32(b, char_signed) ==
    IF char_signed /\ b >= 128 THEN [hi |-> kHighAllOnes, lo |-> b]
    ELSE [hi |-> 0, lo |-> b]

\* static_cast<char>(c): the low byte
U32ToChar(c) == c.lo

\* visitor->Bits(8, 0, &c) when writing: a value of 2^8 or more is outside
\* the field's range and fails
Bits8Write(c) ==
    IF c.hi # 0 THEN [ok |-> FALSE, bits |-> <<>>]
    ELSE [ok |-> TRUE, bits |-> ToBits(c.lo, 8)]

\* visitor->Bits(8, 0, &c) when reading at pos
Bits8Read(stream, pos) ==
    IF ~CanRead(stream, pos, 8) THEN [ok |-> FALSE, c |-> [hi |-> 0, lo |-> 0], pos |-> pos]
    ELSE [ok |-> TRUE, c |-> [hi |-> 0, lo |-> FromBits(stream, pos, 8)], pos |-> pos + 8]

\* the character loop of VisitNameString when writing, from index i (1-based)
RECURSIVE WriteNameChars(_, _, _, _)
WriteNameChars(name, i, bits, char_signed) ==
    IF i > Len(name) THEN [ok |-> TRUE, bits |-> bits]
    ELSE LET w == Bits8Write(CharToU32(name[i], char_signed)) IN
         IF ~w.ok THEN [ok |-> FALSE, bits |-> bits]
         ELSE WriteNameChars(name, i + 1, bits \o w.bits, char_signed)

\* VisitNameString with a writing visitor: [ok, bits]
VisitNameStringWrite(name, char_signed) ==
    LET len == U32Write(kNameLengthEnc, Len(name)) IN
    IF ~len.ok THEN [ok |-> FALSE, bits |-> <<>>]
    ELSE WriteNameChars(name, 1, len.bits, char_signed)

\* name->resize(n): truncated, or padded with '\0'
Resize(name, n) ==
    [i \in 1 .. n |-> IF i <= Len(name) THEN name[i] ELSE 0]

\* the character loop of VisitNameString when reading, from index i
RECURSIVE ReadNameChars(_, _, _, _)
ReadNameChars(name, i, stream, pos) ==
    IF i > Len(name) THEN [ok |-> TRUE, name |-> name, pos |-> pos]
    ELSE LET r == Bits8Read(stream, pos) IN
         IF ~r.ok THEN [ok |-> FALSE, name |-> name, pos |-> pos]
         ELSE ReadNameChars([name EXCEPT ![i] = U32ToChar(r.c)], i + 1,
                            stream, r.pos)

\* VisitNameString with a reading visitor, into the string `name`:
\* [ok, name, pos]
VisitNameStringRead(name, stream, pos) ==
    LET len == U32Read(kNameLengthEnc, stream, pos) IN
    IF ~len.ok THEN [ok |-> FALSE, name |-> name, pos |-> pos]
    ELSE ReadNameChars(Resize(name, len.value), 1, stream, len.pos)

\* Bounds of the names tried: every string of up to MaxNameLen characters of
\* NameChars, and the strings of a length in LongNameLengths that repeat one
\* character (lengths written with selectors 2 and 3).
MaxNameLen == 2
NameChars == {0, 65, 127, 128, 255}
LongNameLengths == {16, 48}

RECURSIVE SeqsUpTo(_, _)
SeqsUpTo(S, n) ==
    IF n = 0 THEN {<<>>}
    ELSE LET shorter == SeqsUpTo(S, n - 1) IN
         shorter \cup {Append(q, x) : q \in {t \in shorter : Len(t) = n - 1}, x \in S}

Names ==
    SeqsUpTo(NameChars, MaxNameLen)
        \cup {[i \in 1 .. n |-> ch] : n \in LongNameLengths, ch \in NameChars}

\* what the string read into holds before the read
NameTargets == {<<>>, <<66, 66, 66>>}

NameIdle == nm = None

NameInit ==
    \E name \in Names, sgn \in BOOLEAN, target \in NameTargets :
        nm = Some([name |-> name, char_signed |-> sgn, phase |-> "name",
                   ok |-> FALSE, bits |-> <<>>, target |-> target,
                   rd_ok |-> FALSE, rd_name |-> <<>>, rd_pos |-> 0])

\* Bundle::Write of a structure holding the name
NameWrite ==
    /\ nm # None
    /\ Get(nm).phase = "name"
    /\ LET w == VisitNameStringWrite(Get(nm).name, Get(nm).char_signed) IN
       nm' = Some([Get(nm) EXCEPT !.phase = "written", !.ok = w.ok,
                                 !.bits = w.bits])

\* Bundle::Read of the written bits into the target string
NameRead ==
    /\ nm # None
    /\ Get(nm).phase = "written"
    /\ Get(nm).ok
    /\ LET r == VisitNameStringRead(Get(nm).target, Get(nm).bits, 1) IN
       nm' = Some([Get(nm) EXCEPT !.phase = "read", !.rd_ok = r.ok,
                                 !.rd_name = r.name, !.rd_pos = r.pos])

\* C4: every name of length 0..1071 over arbitrary 8-bit characters is
\* written as its length followed by exactly that many 8-bit characters, and
\* reading those bits resizes the target and yields the same string,
\* character for character, consuming exactly the bits written.
C4_NameRoundTrip ==
    (nm # None /\ Get(nm).phase # "name" /\ Len(Get(nm).name) <= kMaxNameLength) =>
        LET r == Get(nm) IN
        /\ r.ok
        /\ Len(r.bits) = Len(U32Write(kNameLengthEnc, Len(r.name)).bits)
                            + 8 * Len(r.name)
        /\ r.phase = "read" => /\ r.rd_ok
                               /\ r.rd_name = r.name
                               /\ r.rd_pos = Len(r.bits) + 1

\* The same round trip restricted to the builds and names where no character
\* converts to a value above 255: plain char unsigned, or every byte below 128.
NameRoundTripInRange ==
    (nm # None /\ (~Get(nm).char_signed \/ \A i \in 1 .. Len(Get(nm).name) : Get(nm).name[i] < 128))
        => C4_NameRoundTrip

-----------------------------------------------------------------------------
(***************************************************************************)
(* YCbCrChromaSubsampling.  channel_mode_ is indexed 0..2 in the source    *)
(* and 1..3 here; channel 1 of the source (index 2 here) is luma.          *)
(***************************************************************************)
kHShift == <<0, 1, 1, 0>>
kVShift == <<0, 1, 0, 1>>

kNumModes == 4

Max2(a, b) == IF a >= b THEN a ELSE b

\* void Recompute()
Recompute(d) ==
    [d EXCEPT
        !.maxhs_ = Max2(Max2(kHShift[d.channel_mode_[1] + 1],
                             kHShift[d.channel_mode_[2] + 1]),
                        kHShift[d.channel_mode_[3] + 1]),
        !.maxvs_ = Max2(Max2(kVShift[d.channel_mode_[1] + 1],
                             kVShift[d.channel_mode_[2] + 1]),
                        kVShift[d.channel_mode_[3] + 1])]

\* YCbCrChromaSubsampling(): every field at its default, then Recompute
YCbCrChromaSubsamplingInit ==
    Recompute([channel_mode_ |-> <<0, 0, 0>>, maxhs_ |-> 0, maxvs_ |-> 0])

\* the inner loop of Set: the first mode i >= from whose shifts give the
\* sample factors (h, v); kNumModes when there is none
RECURSIVE FindMode(_, _, _)
FindMode(h, v, i) ==
    IF i = kNumModes THEN kNumModes
    ELSE IF Pow2(kHShift[i + 1]) = h /\ Pow2(kVShift[i + 1]) = v THEN i
    ELSE FindMode(h, v, i + 1)

\* size_t cjpeg = c < 2 ? c ^ 1 : c
CJpeg(c) == IF c = 0 THEN 1 ELSE IF c = 1 THEN 0 ELSE c

\* the outer loop of Set from channel c (0-based) on; hsample and vsample
\* are in JPEG order (Y, Cb, Cr), 1-based here.  A failure returns at once,
\* with the channels before c already stored and without Recompute.
RECURSIVE SetFrom(_, _, _, _)
SetFrom(d, hsample, vsample, c) ==
    IF c = 3 THEN [ok |-> TRUE, d |-> Recompute(d)]
    ELSE LET i == FindMode(hsample[CJpeg(c) + 1], vsample[CJpeg(c) + 1], 0) IN
         IF i = kNumModes THEN [ok |-> FALSE, d |-> d]
         ELSE SetFrom([d EXCEPT !.channel_mode_[c + 1] = i],
                      hsample, vsample, c + 1)

\* Status Set(const uint8_t* hsample, const uint8_t* vsample)
Set(d, hsample, vsample) == SetFrom(d, hsample, vsample, 0)

\* bool Is444() const
Is444(d) ==
    /\ d.channel_mode_[1] = d.channel_mode_[2]
    /\ d.channel_mode_[3] = d.channel_mode_[2]

\* bool Is420() const
Is420(d) ==
    /\ d.channel_mode_[1] = 1
    /\ d.channel_mode_[2] = 0
    /\ d.channel_mode_[3] = 1

\* Sample factors a caller passes to Set (a JPEG component's factors).
SampleArrays == [1 .. 3 -> {1, 2, 4}]

YccIdle == ycc = YCbCrChromaSubsamplingInit /\ ycc_ret = None

\* a caller runs Set(hsample, vsample) on the descriptor
CallSet ==
    /\ ycc_ret = None
    /\ \E hsample \in SampleArrays, vsample \in SampleArrays :
        LET r == Set(ycc, hsample, vsample) IN
        /\ ycc' = r.d
        /\ ycc_ret' = Some([op |-> "Set", hsample |-> hsample,
                            vsample |-> vsample, ok |-> r.ok, before |-> ycc])

\* the caller consumes the returned Status
SetReturn ==
    /\ ycc_ret # None
    /\ ycc_ret' = None
    /\ UNCHANGED ycc

\* C7: Set with the JPEG-order sample arrays {2,1,1} / {2,1,1} (4:2:0)
\* succeeds and afterwards Is420() is true and Is444() is false; after any
\* successful Set, Is420() is true exactly for that configuration and Is444()
\* exactly when the three channels have the same sample factors.
C7_SetThenIs420 ==
    (ycc_ret # None /\ Get(ycc_ret).op = "Set") =>
        LET r == Get(ycc_ret)
            is420cfg == r.hsample = <<2, 1, 1>> /\ r.vsample = <<2, 1, 1>>
            same == /\ r.hsample[1] = r.hsample[2] /\ r.hsample[2] = r.hsample[3]
                    /\ r.vsample[1] = r.vsample[2] /\ r.vsample[2] = r.vsample[3]
        IN  /\ is420cfg => r.ok
            /\ r.ok => /\ Is420(ycc) = is420cfg
                       /\ Is444(ycc) = same

\* What the code does on the 4:2:0 sample arrays: Set succeeds and stores the
\* channel modes <<0, 1, 0>> (luma mode 1), for which Is420() is false.
SetOf420StoresLumaMode1 ==
    (/\ ycc_ret # None
     /\ Get(ycc_ret).hsample = <<2, 1, 1>>
     /\ Get(ycc_ret).vsample = <<2, 1, 1>>)
        => /\ Get(ycc_ret).ok
           /\ ycc.channel_mode_ = <<0, 1, 0>>
           /\ ~Is420(ycc)
           /\ ~Is444(ycc)

-----------------------------------------------------------------------------
(***************************************************************************)
(* DecoderHints.  kv_ is the vector of KeyValue; a consumer `func` is the  *)
(* set of the pairs it returns true for.  hints_log is the history of the  *)
(* Add calls, in call order.                                               *)
(***************************************************************************)
KeyValue ==
    {"color_space", "icc_pathname"} \X {"RGB_D65_SRG_Rel_Lin", "Gra_D65_Rel_SRG"}

\* How many hints are added at most.
MaxHints == 3

\* void Add(key, value): kv_.emplace_back(key, value)
Add(kv, key, value) == Append(kv, <<key, value>>)

\* Foreach that notes a failure and goes on to the remaining pairs
RECURSIVE ForeachNoEarlyReturn(_, _, _, _)
ForeachNoEarlyReturn(kv, func, i, calls) ==
    IF i > Len(kv)
    THEN [ok |-> \A j \in 1 .. Len(kv) : kv[j] \in func, calls |-> calls]
    ELSE ForeachNoEarlyReturn(kv, func, i + 1, Append(calls, kv[i]))

\* Status Foreach(const Func& func) const, from element i on: calls func on
\* each pair in order and returns false at the first pair func rejects.
\* calls is the sequence of the pairs func was invoked with.
RECURSIVE Foreach(_, _, _, _)
Foreach(kv, func, i, calls) ==
    IF i > Len(kv) THEN [ok |-> TRUE, calls |-> calls]
    ELSE IF kv[i] \notin func THEN [ok |-> FALSE, calls |-> Append(calls, kv[i])]
    ELSE Foreach(kv, func, i + 1, Append(calls, kv[i]))

HintsIdle == kv_ = <<>> /\ hints_log = <<>> /\ hints_ret = None

CallAdd ==
    /\ hints_ret = None
    /\ Len(kv_) < MaxHints
    /\ \E key \in {kv[1] : kv \in KeyValue}, value \in {kv[2] : kv \in KeyValue} :
        /\ kv_' = Add(kv_, key, value)
        /\ hints_log' = Append(hints_log, <<key, value>>)
        /\ hints_ret' = None

CallForeach ==
    /\ hints_ret = None
    /\ \E func \in SUBSET KeyValue :
        LET r == Foreach(kv_, func, 1, <<>>) IN
        /\ hints_ret' = Some([func |-> func, ok |-> r.ok, calls |-> r.calls,
                              before |-> kv_])
        /\ UNCHANGED <<kv_, hints_log>>

\* the caller consumes the Status of Foreach
ForeachReturn ==
    /\ hints_ret # None
    /\ hints_ret' = None
    /\ UNCHANGED <<kv_, hints_log>>

\* C8: the stored pairs are the Add calls in call order, duplicates kept;
\* Foreach invokes the consumer on the pairs in exactly that order, returns
\* failure at the first pair the consumer rejects without invoking it on any
\* later pair, returns success when the consumer accepts every pair (also
\* when there is none), and leaves the stored list unchanged.
C8_HintsOrderAndForeach ==
    /\ kv_ = hints_log
    /\ hints_ret # None =>
        LET r == Get(hints_ret)
            n == Len(r.calls)
            rejected == {i \in 1 .. Len(hints_log) : hints_log[i] \notin r.func}
        IN  /\ n <= Len(hints_log)
            /\ r.calls = SubSeq(hints_log, 1, n)
            /\ r.ok = (rejected = {})
            /\ r.ok => n = Len(hints_log)
            /\ ~r.ok => /\ n \in rejected
                        /\ \A i \in rejected : n <= i
            /\ hints_log = <<>> => r.ok
            /\ kv_ = r.before

\* C8 witness: three hints with a duplicate were added and Foreach stopped
\* at the second, never invoking the consumer on the third.
C8_Witness ==
    /\ hints_ret # None
    /\ Len(kv_) = 3
    /\ kv_[1] = kv_[3]
    /\ kv_[1] # kv_[2]
    /\ ~Get(hints_ret).ok
    /\ Len(Get(hints_ret).calls) = 2

-----------------------------------------------------------------------------
(***************************************************************************)
(* ImageBundle and CodecInOut.  A bundle is its current color encoding     *)
(* c_current_ and its planar color data color_; the pixels are abstracted  *)
(* to the encoding they were installed in (orig) and the encoding they are *)
(* expressed in now (enc).  io is a CodecInOut: have_preview is            *)
(* metadata.m.m2.have_preview, bundle 0 is preview_frame, bundles 1..n are *)
(* frames[0..n-1].                                                         *)
(***************************************************************************)
ColorEncodings == {"sRGB", "LinearSRGB"}

\* a default-constructed ColorEncoding
kDefaultColorEncoding == "sRGB"

\* explicit ImageBundle(const ImageMetadata*): no color installed
ImageBundleInit ==
    [c_current_ |-> kDefaultColorEncoding,
     color_ |-> [orig |-> "none", enc |-> kDefaultColorEncoding]]

\* void ImageBundle::SetFromImage(Image3F&& color, const ColorEncoding&)
ImageBundle_SetFromImage(ib, c_current) ==
    [c_current_ |-> c_current, color_ |-> [orig |-> c_current, enc |-> c_current]]

\* Status ImageBundle::TransformTo(c_desired): a no-op when the encodings
\* match; otherwise converts color_ in place and sets c_current_, or fails
\* (fails: the color transform of this bundle cannot be done).
ImageBundle_TransformTo(ib, c_desired, fails) ==
    IF ib.c_current_ = c_desired THEN [ok |-> TRUE, ib |-> ib]
    ELSE IF fails THEN [ok |-> FALSE, ib |-> ib]
    ELSE [ok |-> TRUE,
          ib |-> [c_current_ |-> c_desired,
                  color_ |-> [ib.color_ EXCEPT !.enc = c_desired]]]

\* CodecInOut(): preview_frame(&metadata.m), one frame
CodecInOutInit ==
    [have_preview |-> FALSE,
     preview_frame |-> ImageBundleInit,
     frames |-> <<ImageBundleInit>>]

\* the loop over frames of CodecInOut::TransformTo, from frame i on;
\* failing is the set of bundles whose color transform cannot be done and
\* calls the sequence of bundles ImageBundle::TransformTo was called on
RECURSIVE TransformFrames(_, _, _, _, _)
TransformFrames(c, c_desired, failing, i, calls) ==
    IF i > Len(c.frames) THEN [ok |-> TRUE, io |-> c, calls |-> calls]
    ELSE LET r == ImageBundle_TransformTo(c.frames[i], c_desired, i \in failing)
             after == [c EXCEPT !.frames[i] = r.ib]
         IN  IF ~r.ok THEN [ok |-> FALSE, io |-> after, calls |-> Append(calls, i)]
             ELSE TransformFrames(after, c_desired, failing, i + 1,
                                  Append(calls, i))

\* CodecInOut::TransformTo that transforms the preview whether or not the
\* metadata declares one
CodecInOut_TransformToAlwaysPreview(c, c_desired, failing) ==
    LET r == ImageBundle_TransformTo(c.preview_frame, c_desired, 0 \in failing)
        after == [c EXCEPT !.preview_frame = r.ib]
    IN  IF ~r.ok THEN [ok |-> FALSE, io |-> after, calls |-> <<0>>]
        ELSE TransformFrames(after, c_desired, failing, 1, <<0>>)

\* Status CodecInOut::TransformTo(const ColorEncoding& c_desired, pool)
CodecInOut_TransformTo(c, c_desired, failing) ==
    IF c.have_preview
    THEN LET r == ImageBundle_TransformTo(c.preview_frame, c_desired,
                                          0 \in failing)
             after == [c EXCEPT !.preview_frame = r.ib]
         IN  IF ~r.ok THEN [ok |-> FALSE, io |-> after, calls |-> <<0>>]
             ELSE TransformFrames(after, c_desired, failing, 1, <<0>>)
    ELSE TransformFrames(c, c_desired, failing, 1, <<>>)

\* How many frames a CodecInOut gets at most.
MaxFrames == 3

IoIdle == io = CodecInOutInit /\ io_ret = None

\* a decoder declares a preview and installs its pixels
\* (metadata.m.m2.have_preview, preview_frame.SetFromImage)
SetPreview ==
    /\ io_ret = None
    /\ \E c \in ColorEncodings :
        io' = [io EXCEPT !.have_preview = TRUE,
                         !.preview_frame = ImageBundle_SetFromImage(@, c)]
    /\ UNCHANGED io_ret

\* a decoder installs the pixels of frame i (ImageBundle::SetFromImage)
SetFrameFromImage ==
    /\ io_ret = None
    /\ \E i \in 1 .. Len(io.frames), c \in ColorEncodings :
        io' = [io EXCEPT !.frames[i] = ImageBundle_SetFromImage(@, c)]
    /\ UNCHANGED io_ret

\* a decoder of an animation appends a frame (frames.emplace_back)
AppendFrame ==
    /\ io_ret = None
    /\ Len(io.frames) < MaxFrames
    /\ io' = [io EXCEPT !.frames = Append(@, ImageBundleInit)]
    /\ UNCHANGED io_ret

\* bool HasColor() const
HasColor(ib) == ib.color_.orig # "none"

\* a caller runs io.TransformTo(c_desired) once every bundle the call
\* reaches holds pixels
CallTransformTo ==
    /\ io_ret = None
    /\ io.have_preview => HasColor(io.preview_frame)
    /\ \A i \in 1 .. Len(io.frames) : HasColor(io.frames[i])
    /\ \E c_desired \in ColorEncodings, failing \in SUBSET (0 .. Len(io.frames)) :
        LET r == CodecInOut_TransformTo(io, c_desired, failing) IN
        /\ io' = r.io
        /\ io_ret' = Some([op |-> "TransformTo", c_desired |-> c_desired,
                           failing |-> failing, ok |-> r.ok,
                           calls |-> r.calls, before |-> io])

\* the caller consumes the returned Status
TransformToReturn ==
    /\ io_ret # None
    /\ io_ret' = None
    /\ UNCHANGED io

\* the bundles of c in iteration order: 0 is the preview, i >= 1 frames[i-1]
BundleAt(c, i) == IF i = 0 THEN c.preview_frame ELSE c.frames[i]

\* C9: CodecInOut::TransformTo calls ImageBundle::TransformTo first on the
\* preview frame, iff the metadata declares a preview, then on every frame
\* in sequence order; it returns failure at the first bundle whose transform
\* fails, calling it on no later bundle, and returns success only if every
\* attempted transform succeeded.
C9_TransformToOrder ==
    (io_ret # None /\ Get(io_ret).op = "TransformTo") =>
        LET r == Get(io_ret)
            n == Len(r.before.frames)
            order == (IF r.before.have_preview THEN <<0>> ELSE <<>>)
                        \o [i \in 1 .. n |-> i]
            k == Len(r.calls)
            fail(j) == /\ order[j] \in r.failing
                       /\ BundleAt(r.before, order[j]).c_current_ # r.c_desired
            failed == {j \in 1 .. Len(order) : fail(j)}
        IN  /\ k <= Len(order)
            /\ r.calls = SubSeq(order, 1, k)
            /\ (\E j \in 1 .. k : r.calls[j] = 0) => r.before.have_preview
            /\ (r.before.have_preview /\ k > 0) => r.calls[1] = 0
            /\ r.ok = (failed = {})
            /\ r.ok => k = Len(order)
            /\ ~r.ok => /\ k \in failed
                        /\ \A j \in failed : k <= j

\* C9 witness: a preview is declared and there are three frames; the preview
\* and the first frame were transformed, the second frame failed and the
\* third was not attempted.
C9_Witness ==
    /\ io_ret # None
    /\ Get(io_ret).before.have_preview
    /\ Len(io.frames) = 3
    /\ ~Get(io_ret).ok
    /\ Get(io_ret).calls = <<0, 1, 2>>
    /\ io.frames[1].c_current_ # Get(io_ret).before.frames[1].c_current_

\* C10: a failing CodecInOut::TransformTo applies nothing partially: when it
\* returns failure, the color encoding and pixel data of the preview and of
\* every frame are what they were before the call.
C10_FailureLeavesAllBundles ==
    (io_ret # None /\ Get(io_ret).op = "TransformTo" /\ ~Get(io_ret).ok) =>
        /\ io.preview_frame = Get(io_ret).before.preview_frame
        /\ io.frames = Get(io_ret).before.frames

\* What the code guarantees on failure: the failing bundle and the bundles
\* after it are untouched, while every bundle before it is left transformed
\* to c_desired.
FailureKeepsEarlierTransforms ==
    (io_ret # None /\ Get(io_ret).op = "TransformTo" /\ ~Get(io_ret).ok) =>
        LET r == Get(io_ret)
            k == Len(r.calls)
        IN  /\ \A j \in 1 .. (k - 1) :
                   BundleAt(io, r.calls[j]).c_current_ = r.c_desired
            /\ BundleAt(io, r.calls[k]) = BundleAt(r.before, r.calls[k])
            /\ \A i \in 1 .. Len(io.frames) :
                   i > r.calls[k] => io.frames[i] = r.before.frames[i]

-----------------------------------------------------------------------------
(***************************************************************************)
(* FrameHeader.  fh is one FrameHeader; duration is                        *)
(* animation_frame.duration.  nonserialized_image_metadata is None (a null *)
(* pointer) or Some(m), m holding what ImageMetadata::xsize(), ysize() and *)
(* nonserialized_preview.xsize(), ysize() return.                          *)
(***************************************************************************)
\* enum class FrameEncoding
kVarDCT == 0
kModular == 1
\* enum FrameType
kRegularFrame == 0
kDCFrame == 1
kReferenceOnly == 2
\* enum class ColorTransform
kXYB == 0
kNone == 1
kYCbCr == 2
\* FrameHeader::Flags
kUseDcFrame == 32

\* the largest dc_level of a DC frame ("1-4 if kDCFrame")
kMaxDcLevel == 4
\* save_as_reference is an id 0-3
kMaxReferenceSlot == 3

\* explicit FrameHeader(const ImageMetadata* metadata): every serialized
\* field at its declared default
FrameHeaderInit(metadata) ==
    [all_default |-> TRUE,
     encoding |-> kVarDCT,
     frame_type |-> kRegularFrame,
     flags |-> 0,
     color_transform |-> kXYB,
     group_size_shift |-> 1,
     x_qm_scale |-> 2,
     custom_size_or_origin |-> FALSE,
     frame_size |-> [xsize |-> 0, ysize |-> 0],
     upsampling |-> 1,
     duration |-> 0,
     is_last |-> TRUE,
     save_as_reference |-> 0,
     dc_level |-> 0,
     nonserialized_image_metadata |-> metadata,
     nonserialized_is_preview |-> FALSE]

\* CanBeReferenced with the clause on is_last left out
CanBeReferencedIgnoringIsLast(h) ==
    /\ h.frame_type # kDCFrame
    /\ (h.duration = 0 \/ h.save_as_reference # 0)

\* bool CanBeReferenced() const
CanBeReferenced(h) ==
    /\ ~h.is_last
    /\ h.frame_type # kDCFrame
    /\ (h.duration = 0 \/ h.save_as_reference # 0)

\* size_t default_xsize() const
default_xsize(h) ==
    IF h.nonserialized_image_metadata = None THEN 0
    ELSE IF h.nonserialized_is_preview
         THEN Get(h.nonserialized_image_metadata).preview_xsize
         ELSE Get(h.nonserialized_image_metadata).xsize

\* size_t default_ysize() const
default_ysize(h) ==
    IF h.nonserialized_image_metadata = None THEN 0
    ELSE IF h.nonserialized_is_preview
         THEN Get(h.nonserialized_image_metadata).preview_ysize
         ELSE Get(h.nonserialized_image_metadata).ysize

\* DivCeil(a, b) of lib/jxl/common.h
DivCeil(a, b) == (a + b - 1) \div b

\* ToFrameDimensions dividing by 1 << dc_level
ToFrameDimensionsShiftByLevel(h) ==
    LET xsize == IF h.frame_size.xsize # 0 THEN h.frame_size.xsize
                 ELSE default_xsize(h)
        ysize == IF h.frame_size.ysize # 0 THEN h.frame_size.ysize
                 ELSE default_ysize(h)
    IN  IF h.dc_level # 0
        THEN [xsize |-> DivCeil(xsize, Pow2(h.dc_level)),
              ysize |-> DivCeil(ysize, Pow2(h.dc_level))]
        ELSE [xsize |-> xsize, ysize |-> ysize]

\* FrameDimensions ToFrameDimensions() const: the xsize and ysize handed to
\* FrameDimensions::Set
ToFrameDimensions(h) ==
    LET xsize == IF h.frame_size.xsize # 0 THEN h.frame_size.xsize
                 ELSE default_xsize(h)
        ysize == IF h.frame_size.ysize # 0 THEN h.frame_size.ysize
                 ELSE default_ysize(h)
    IN  IF h.dc_level # 0
        THEN [xsize |-> DivCeil(xsize, Pow2(3 * h.dc_level)),
              ysize |-> DivCeil(ysize, Pow2(3 * h.dc_level))]
        ELSE [xsize |-> xsize, ysize |-> ysize]

\* frame type and dc_level together: dc_level is 1-4 if kDCFrame, 0 otherwise
FrameTypesAndLevels ==
    {<<kRegularFrame, 0>>, <<kReferenceOnly, 0>>}
        \cup {<<kDCFrame, l>> : l \in 1 .. kMaxDcLevel}

\* Image and frame sizes tried: zero, below, at and above a multiple of 8^k.
FrameSizeValues == {0, 1, 9, 4097}
\* Animation durations tried: 0 .. MaxDuration ticks.
MaxDuration == 2

ImageMetadatas ==
    {None,
     Some([xsize |-> 4096, ysize |-> 513, preview_xsize |-> 64, preview_ysize |-> 7]),
     Some([xsize |-> 8, ysize |-> 32769, preview_xsize |-> 0, preview_ysize |-> 0])}

\* the headers whose derived values are queried: a constructed header with
\* the fields CanBeReferenced and ToFrameDimensions read set by its owner
QueriedFrameHeaders ==
    {[FrameHeaderInit(m) EXCEPT
          !.frame_type = tl[1], !.dc_level = tl[2],
          !.frame_size = [xsize |-> fx, ysize |-> fy],
          !.nonserialized_is_preview = pv,
          !.is_last = last, !.duration = dur, !.save_as_reference = ref] :
        m \in ImageMetadatas, tl \in FrameTypesAndLevels,
        fx \in FrameSizeValues, fy \in FrameSizeValues, pv \in BOOLEAN,
        last \in BOOLEAN, dur \in 0 .. MaxDuration,
        ref \in {0, 1, kMaxReferenceSlot}}

FrameIdle ==
    /\ fh = FrameHeaderInit(None)
    /\ fh_ret = None
    /\ fh_wr = None
    /\ fh_rd = None

FrameInit ==
    /\ fh \in QueriedFrameHeaders
    /\ fh_ret = None
    /\ fh_wr = None
    /\ fh_rd = None

CallCanBeReferenced ==
    /\ fh_ret = None
    /\ fh_ret' = Some([op |-> "CanBeReferenced", ref |-> CanBeReferenced(fh),
                       dim |-> [xsize |-> 0, ysize |-> 0]])
    /\ UNCHANGED <<fh, fh_wr, fh_rd>>

CallToFrameDimensions ==
    /\ fh_ret = None
    /\ fh_ret' = Some([op |-> "ToFrameDimensions", ref |-> FALSE,
                       dim |-> ToFrameDimensions(fh)])
    /\ UNCHANGED <<fh, fh_wr, fh_rd>>

\* C5: CanBeReferenced() is true iff is_last is false, frame_type is not
\* kDCFrame and (duration == 0 or save_as_reference != 0): a frame of nonzero
\* duration is referenceable only with a nonzero reference slot, a
\* zero-duration non-last non-DC frame always is, and the last frame and any
\* DC frame never are.
C5_CanBeReferenced ==
    (fh_ret # None /\ Get(fh_ret).op = "CanBeReferenced") =>
        LET res == Get(fh_ret).ref IN
        /\ res = (~fh.is_last /\ fh.frame_type # kDCFrame
                    /\ (fh.duration = 0 \/ fh.save_as_reference # 0))
        /\ (res /\ fh.duration # 0) => fh.save_as_reference # 0
        /\ (fh.duration = 0 /\ ~fh.is_last /\ fh.frame_type # kDCFrame) => res
        /\ (fh.is_last \/ fh.frame_type = kDCFrame) => ~res

\* C5 witness: a non-last regular frame of nonzero duration saved in slot 3
\* was found referenceable.
C5_Witness ==
    /\ fh_ret # None
    /\ Get(fh_ret).op = "CanBeReferenced"
    /\ Get(fh_ret).ref
    /\ fh.duration # 0
    /\ fh.save_as_reference = kMaxReferenceSlot
    /\ fh.frame_type = kRegularFrame

\* C6: each effective dimension is the explicit frame_size when nonzero and
\* otherwise the metadata's default size (the preview's when
\* nonserialized_is_preview, zero with no metadata); for a DC frame it is
\* then divided by 8^dc_level rounding up, and for any other frame it is not
\* divided.
C6_FrameDimensions ==
    (fh_ret # None /\ Get(fh_ret).op = "ToFrameDimensions") =>
        LET dim == Get(fh_ret).dim
            m == fh.nonserialized_image_metadata
            defx == IF m = None THEN 0
                    ELSE IF fh.nonserialized_is_preview THEN Get(m).preview_xsize
                    ELSE Get(m).xsize
            defy == IF m = None THEN 0
                    ELSE IF fh.nonserialized_is_preview THEN Get(m).preview_ysize
                    ELSE Get(m).ysize
            basex == IF fh.frame_size.xsize # 0 THEN fh.frame_size.xsize ELSE defx
            basey == IF fh.frame_size.ysize # 0 THEN fh.frame_size.ysize ELSE defy
            d == IF fh.dc_level = 1 THEN 8
                 ELSE IF fh.dc_level = 2 THEN 64
                 ELSE IF fh.dc_level = 3 THEN 512
                 ELSE 4096
            \* q is n / d rounded up
            IsCeil(q, n) == q * d >= n /\ (q - 1) * d < n /\ q >= 0
        IN  IF fh.frame_type = kDCFrame
            THEN IsCeil(dim.xsize, basex) /\ IsCeil(dim.ysize, basey)
            ELSE dim.xsize = basex /\ dim.ysize = basey

\* C6 witness: a DC frame of level 2 with no explicit size over a 4096 x 513
\* image has dimensions 64 x 9 (513 / 64 rounded up).
C6_Witness ==
    /\ fh_ret # None
    /\ Get(fh_ret).op = "ToFrameDimensions"
    /\ fh.frame_type = kDCFrame
    /\ fh.dc_level = 2
    /\ fh.frame_size = [xsize |-> 0, ysize |-> 0]
    /\ Get(fh_ret).dim = [xsize |-> 64, ysize |-> 9]

-----------------------------------------------------------------------------
(***************************************************************************)
(* FrameHeader::VisitFields, WriteFrameHeader and ReadFrameHeader.  One    *)
(* traversal visits the fields in FieldOrder; a field is visited when its  *)
(* presence predicate holds of the fields visited before it.  The model    *)
(* covers the fields whose presence the header documents, without name,    *)
(* passes, blending, chroma subsampling and extensions.                    *)
(***************************************************************************)
FieldOrder ==
    <<"frame_type", "encoding", "flags", "color_transform", "upsampling",
      "group_size_shift", "x_qm_scale", "dc_level", "custom_size_or_origin",
      "frame_size.xsize", "frame_size.ysize", "duration", "is_last",
      "save_as_reference">>

BoolToInt(b) == IF b THEN 1 ELSE 0

\* the value of a field, as the integer the coders handle
GetField(h, f) ==
    CASE f = "frame_type" -> h.frame_type
      [] f = "encoding" -> h.encoding
      [] f = "flags" -> h.flags
      [] f = "color_transform" -> h.color_transform
      [] f = "upsampling" -> h.upsampling
      [] f = "group_size_shift" -> h.group_size_shift
      [] f = "x_qm_scale" -> h.x_qm_scale
      [] f = "dc_level" -> h.dc_level
      [] f = "custom_size_or_origin" -> BoolToInt(h.custom_size_or_origin)
      [] f = "frame_size.xsize" -> h.frame_size.xsize
      [] f = "frame_size.ysize" -> h.frame_size.ysize
      [] f = "duration" -> h.duration
      [] f = "is_last" -> BoolToInt(h.is_last)
      [] f = "save_as_reference" -> h.save_as_reference

SetField(h, f, v) ==
    CASE f = "frame_type" -> [h EXCEPT !.frame_type = v]
      [] f = "encoding" -> [h EXCEPT !.encoding = v]
      [] f = "flags" -> [h EXCEPT !.flags = v]
      [] f = "color_transform" -> [h EXCEPT !.color_transform = v]
      [] f = "upsampling" -> [h EXCEPT !.upsampling = v]
      [] f = "group_size_shift" -> [h EXCEPT !.group_size_shift = v]
      [] f = "x_qm_scale" -> [h EXCEPT !.x_qm_scale = v]
      [] f = "dc_level" -> [h EXCEPT !.dc_level = v]
      [] f = "custom_size_or_origin" -> [h EXCEPT !.custom_size_or_origin = (v = 1)]
      [] f = "frame_size.xsize" -> [h EXCEPT !.frame_size.xsize = v]
      [] f = "frame_size.ysize" -> [h EXCEPT !.frame_size.ysize = v]
      [] f = "duration" -> [h EXCEPT !.duration = v]
      [] f = "is_last" -> [h EXCEPT !.is_last = (v = 1)]
      [] f = "save_as_reference" -> [h EXCEPT !.save_as_reference = v]

\* the declared default of a field
FieldDefault(f) == GetField(FrameHeaderInit(None), f)

\* whether flag is set in flags
HasFlag(flags, flag) == (flags \div flag) % 2 = 1

\* the presence predicate of a field, over the fields visited before it
Present(h, f) ==
    CASE f = "upsampling" -> ~HasFlag(h.flags, kUseDcFrame)
      [] f = "group_size_shift" -> h.encoding = kModular
      [] f = "x_qm_scale" -> h.encoding = kVarDCT /\ h.color_transform = kXYB
      [] f = "dc_level" -> h.frame_type = kDCFrame
      [] f = "custom_size_or_origin" -> h.frame_type # kDCFrame
      [] f = "frame_size.xsize" -> h.frame_type # kDCFrame /\ h.custom_size_or_origin
      [] f = "frame_size.ysize" -> h.frame_type # kDCFrame /\ h.custom_size_or_origin
      [] f = "save_as_reference" -> h.frame_type # kDCFrame
      [] OTHER -> TRUE

\* the coder of a field: raw bits (nbits > 0) or a U32Enc
RawBits(n) == [nbits |-> n, enc |-> <<>>]
U32Field(enc) == [nbits |-> 0, enc |-> enc]

FieldCoder(f) ==
    CASE f = "frame_type" -> U32Field(U32Enc(Val(0), Val(1), Val(2), Val(3)))
      [] f = "encoding" -> RawBits(1)
      [] f = "flags" ->
            U32Field(U32Enc(Val(0), BitsOffset(4, 1), BitsOffset(8, 17), Bits(12)))
      [] f = "color_transform" -> RawBits(2)
      [] f = "upsampling" -> U32Field(U32Enc(Val(1), Val(2), Val(4), Val(8)))
      [] f = "group_size_shift" -> RawBits(2)
      [] f = "x_qm_scale" -> RawBits(3)
      [] f = "dc_level" -> U32Field(U32Enc(Val(1), Val(2), Val(3), Val(4)))
      [] f = "custom_size_or_origin" -> RawBits(1)
      [] f = "frame_size.xsize" ->
            U32Field(U32Enc(Bits(8), BitsOffset(11, 256), BitsOffset(14, 2304),
                            BitsOffset(20, 18688)))
      [] f = "frame_size.ysize" ->
            U32Field(U32Enc(Bits(8), BitsOffset(11, 256), BitsOffset(14, 2304),
                            BitsOffset(20, 18688)))
      [] f = "duration" -> U32Field(U32Enc(Val(0), Val(1), Bits(8), Bits(16)))
      [] f = "is_last" -> RawBits(1)
      [] f = "save_as_reference" -> RawBits(2)

\* one field in the writing direction
FieldWrite(f, v) ==
    LET c == FieldCoder(f) IN
    IF c.nbits = 0
    THEN LET w == U32Write(c.enc, v) IN [ok |-> w.ok, bits |-> w.bits]
    ELSE IF v >= Pow2(c.nbits) THEN [ok |-> FALSE, bits |-> <<>>]
    ELSE [ok |-> TRUE, bits |-> ToBits(v, c.nbits)]

\* one field in the reading direction
FieldRead(f, stream, pos) ==
    LET c == FieldCoder(f) IN
    IF c.nbits = 0 THEN U32Read(c.enc, stream, pos)
    ELSE IF ~CanRead(stream, pos, c.nbits)
    THEN [ok |-> FALSE, value |-> 0, pos |-> pos]
    ELSE [ok |-> TRUE, value |-> FromBits(stream, pos, c.nbits),
          pos |-> pos + c.nbits]

\* Bundle::AllDefault: every visited field holds its declared default
AllDefault(h) ==
    \A i \in 1 .. Len(FieldOrder) :
        Present(h, FieldOrder[i]) => GetField(h, FieldOrder[i]) = FieldDefault(FieldOrder[i])

\* Visitor::SetDefault: every serialized field, but no nonserialized_*
SetDefault(h) ==
    [FrameHeaderInit(h.nonserialized_image_metadata) EXCEPT
        !.nonserialized_is_preview = h.nonserialized_is_preview]

\* the traversal from field i on, writing direction
RECURSIVE WriteFieldsFrom(_, _, _)
WriteFieldsFrom(h, i, bits) ==
    IF i > Len(FieldOrder) THEN [ok |-> TRUE, bits |-> bits]
    ELSE IF ~Present(h, FieldOrder[i]) THEN WriteFieldsFrom(h, i + 1, bits)
    ELSE LET w == FieldWrite(FieldOrder[i], GetField(h, FieldOrder[i])) IN
         IF ~w.ok THEN [ok |-> FALSE, bits |-> bits]
         ELSE WriteFieldsFrom(h, i + 1, bits \o w.bits)

\* the traversal from field i on, reading direction
RECURSIVE ReadFieldsFrom(_, _, _, _)
ReadFieldsFrom(h, i, stream, pos) ==
    IF i > Len(FieldOrder) THEN [ok |-> TRUE, frame |-> h, pos |-> pos]
    ELSE IF ~Present(h, FieldOrder[i]) THEN ReadFieldsFrom(h, i + 1, stream, pos)
    ELSE LET r == FieldRead(FieldOrder[i], stream, pos) IN
         IF ~r.ok THEN [ok |-> FALSE, frame |-> h, pos |-> pos]
         ELSE ReadFieldsFrom(SetField(h, FieldOrder[i], r.value), i + 1,
                             stream, r.pos)

\* WriteFrameHeader writing the fields of an all-default header too
WriteFrameHeaderNoElision(frame) ==
    LET all == AllDefault(frame)
        w == WriteFieldsFrom(frame, 1, <<0>>)
    IN  [ok |-> w.ok, bits |-> w.bits,
         frame |-> [frame EXCEPT !.all_default = all]]

\* Status WriteFrameHeader(const FrameHeader& frame, BitWriter* writer, ...):
\* the mutable all_default is recomputed, its bit written, and the fields
\* follow unless it is set
WriteFrameHeader(frame) ==
    LET all == AllDefault(frame)
        w == IF all THEN [ok |-> TRUE, bits |-> <<1>>]
             ELSE WriteFieldsFrom(frame, 1, <<0>>)
    IN  [ok |-> w.ok, bits |-> w.bits,
         frame |-> [frame EXCEPT !.all_default = all]]

\* Status ReadFrameHeader(BitReader* reader, FrameHeader* frame)
ReadFrameHeader(stream, frame) ==
    IF ~CanRead(stream, 1, 1) THEN [ok |-> FALSE, frame |-> frame, pos |-> 1]
    ELSE IF stream[1] = 1
    THEN [ok |-> TRUE, frame |-> SetDefault(frame), pos |-> 2]
    ELSE ReadFieldsFrom([frame EXCEPT !.all_default = FALSE], 1, stream, 2)

\* flags with the upsampling that goes with them: "Skipped (1) if kUseDCFrame"
FlagsAndUpsamplings == {<<0, 1>>, <<0, 2>>, <<kUseDcFrame, 1>>}
\* custom_size_or_origin with the frame size
CustomSizes ==
    {<<FALSE, 0, 0>>, <<FALSE, 9, 9>>, <<TRUE, 9, 0>>, <<TRUE, 300, 5>>}

\* the headers an encoder builds: a constructed header with its public
\* fields assigned
FrameHeaders ==
    {[FrameHeaderInit(None) EXCEPT
          !.all_default = ad,
          !.frame_type = tl[1], !.dc_level = tl[2],
          !.encoding = e, !.flags = fu[1], !.upsampling = fu[2],
          !.color_transform = ct, !.group_size_shift = gss, !.x_qm_scale = xqm,
          !.custom_size_or_origin = cs[1],
          !.frame_size = [xsize |-> cs[2], ysize |-> cs[3]],
          !.is_last = last, !.duration = dur, !.save_as_reference = ref] :
        ad \in BOOLEAN, tl \in FrameTypesAndLevels, e \in {kVarDCT, kModular},
        fu \in FlagsAndUpsamplings, ct \in {kXYB, kNone, kYCbCr},
        gss \in {1, 2}, xqm \in {2, 5}, cs \in CustomSizes,
        last \in BOOLEAN, dur \in {0, MaxDuration}, ref \in {0, 1}}

FHInit ==
    /\ fh \in FrameHeaders
    /\ fh_ret = None
    /\ fh_wr = None
    /\ fh_rd = None

\* an encoder writes the header into an empty stream
CallWriteFrameHeader ==
    /\ fh_wr = None
    /\ LET w == WriteFrameHeader(fh) IN
        /\ fh_wr' = Some([ok |-> w.ok, bits |-> w.bits])
        /\ fh' = w.frame
    /\ UNCHANGED <<fh_ret, fh_rd>>

\* a decoder reads the stream into a header constructed with the same
\* ImageMetadata
CallReadFrameHeader ==
    /\ fh_wr # None
    /\ Get(fh_wr).ok
    /\ fh_rd = None
    /\ fh_rd' = Some(ReadFrameHeader(
                        Get(fh_wr).bits,
                        [FrameHeaderInit(fh.nonserialized_image_metadata) EXCEPT
                            !.nonserialized_is_preview = fh.nonserialized_is_preview]))
    /\ UNCHANGED <<fh, fh_ret, fh_wr>>

\* every field the presence predicates leave unvisited holds its default
UnvisitedAtDefault(h) ==
    \A i \in 1 .. Len(FieldOrder) :
        ~Present(h, FieldOrder[i]) => GetField(h, FieldOrder[i]) = FieldDefault(FieldOrder[i])

AllDefaultElidesFields ==
    (fh_rd # None /\ fh.all_default) =>
        /\ Get(fh_wr).bits = <<1>>
        /\ Get(fh_rd).frame = SetDefault(fh)

-----------------------------------------------------------------------------
(***************************************************************************)
(* CodecInOut objects with their sizes.  cios maps an address to None (no  *)
(* object there) or Some(c), c a CodecInOut; the address of c.metadata.m   *)
(* is identified with the address of c.  metadata_size is                  *)
(* metadata.m.nonserialized_size.  An image is its dimensions and the      *)
(* buffer buf that holds its pixels (0 for an image without pixels).       *)
(***************************************************************************)
EmptyImage == [xsize |-> 0, ysize |-> 0, buf |-> 0]

\* explicit ImageBundle(const ImageMetadata* metadata)
ImageBundle_New(metadata) ==
    [metadata_ |-> metadata,
     color_ |-> EmptyImage,
     c_current_ |-> kDefaultColorEncoding,
     extra_channels_ |-> <<>>,
     jpeg_data |-> None]

\* xsize() that looks at the color image before the transcoded payload
ImageBundle_xsizeColorFirst(b) ==
    IF b.color_.xsize # 0 THEN b.color_.xsize
    ELSE IF b.jpeg_data # None THEN Get(b.jpeg_data).width
    ELSE IF b.extra_channels_ = <<>> THEN 0
    ELSE b.extra_channels_[1].xsize

\* size_t ImageBundle::xsize() const
ImageBundle_xsize(b) ==
    IF b.jpeg_data # None THEN Get(b.jpeg_data).width
    ELSE IF b.color_.xsize # 0 THEN b.color_.xsize
    ELSE IF b.extra_channels_ = <<>> THEN 0
    ELSE b.extra_channels_[1].xsize

\* size_t ImageBundle::ysize() const
ImageBundle_ysize(b) ==
    IF b.jpeg_data # None THEN Get(b.jpeg_data).height
    ELSE IF b.color_.ysize # 0 THEN b.color_.ysize
    ELSE IF b.extra_channels_ = <<>> THEN 0
    ELSE b.extra_channels_[1].ysize

\* Image::ShrinkTo: the dimensions change, the buffer stays
Image_ShrinkTo(im, xsize, ysize) ==
    [im EXCEPT !.xsize = xsize, !.ysize = ysize]

\* void ImageBundle::ShrinkTo(size_t xsize, size_t ysize): crops the color
\* image and every extra channel
ImageBundle_ShrinkTo(b, xsize, ysize) ==
    [b EXCEPT
        !.color_ = Image_ShrinkTo(@, xsize, ysize),
        !.extra_channels_ =
            [i \in 1 .. Len(@) |-> Image_ShrinkTo(@[i], xsize, ysize)]]

\* Status SizeHeader::Set(xsize, ysize): an empty image is a failure
SizeHeader_Set(xsize, ysize) ==
    IF xsize = 0 \/ ysize = 0
    THEN [ok |-> FALSE, size |-> [xsize |-> 0, ysize |-> 0]]
    ELSE [ok |-> TRUE, size |-> [xsize |-> xsize, ysize |-> ysize]]

\* CodecInOut() at address a: preview_frame(&metadata.m) and one frame
CodecInOut_New(a) ==
    [metadata_size |-> [xsize |-> 0, ysize |-> 0],
     preview_frame |-> ImageBundle_New(a),
     frames |-> <<ImageBundle_New(a)>>,
     dec_max_xsize |-> Max32,
     dec_max_ysize |-> Max32,
     dec_max_pixels |-> Max64,
     dec_hints |-> <<<<"color_space", "RGB_D65_SRG_Rel_Lin">>>>,
     blobs |-> "exif"]

\* void SetSize(size_t xsize, size_t ysize): JXL_CHECK aborts the process
\* when SizeHeader::Set fails
CodecInOut_SetSize(c, xsize, ysize) ==
    LET r == SizeHeader_Set(xsize, ysize) IN
    IF r.ok THEN [aborted |-> FALSE, c |-> [c EXCEPT !.metadata_size = r.size]]
    ELSE [aborted |-> TRUE, c |-> c]

\* size_t CodecInOut::xsize() const, ysize() const
CodecInOut_xsize(c) == c.metadata_size.xsize
CodecInOut_ysize(c) == c.metadata_size.ysize

\* ShrinkTo that crops the preview frame as well
CodecInOut_ShrinkToWithPreview(c, xsize, ysize) ==
    CodecInOut_SetSize(
        [c EXCEPT !.preview_frame = ImageBundle_ShrinkTo(@, xsize, ysize),
                  !.frames = [i \in 1 .. Len(@) |->
                                 ImageBundle_ShrinkTo(@[i], xsize, ysize)]],
        xsize, ysize)

\* void CodecInOut::ShrinkTo(size_t xsize, size_t ysize)
CodecInOut_ShrinkTo(c, xsize, ysize) ==
    CodecInOut_SetSize(
        [c EXCEPT !.frames = [i \in 1 .. Len(@) |->
                                 ImageBundle_ShrinkTo(@[i], xsize, ysize)]],
        xsize, ysize)

\* How many addresses hold CodecInOut objects.
MaxObjects == 3
Addresses == 1 .. MaxObjects

\* Image dimensions tried: 1 .. MaxSize.
MaxSize == 2
\* How many frames a sized CodecInOut gets at most.
MaxSizedFrames == 2

\* an image of x by y pixels in buffer buf
Image(x, y, buf) == [xsize |-> x, ysize |-> y, buf |-> buf]

CioIdle ==
    /\ cios = [a \in Addresses |-> None]
    /\ cio_ret = None

\* one CodecInOut, constructed at address 1
CioInit ==
    /\ cios = [a \in Addresses |-> IF a = 1 THEN Some(CodecInOut_New(1)) ELSE None]
    /\ cio_ret = None

\* the object the sized operations work on
TheCio == Get(cios[1])

\* void CodecInOut::SetFromImage(Image3F&& color, c_current): installs the
\* pixels of the main frame and declares their size; the extra channels, set
\* afterwards, have to agree with the color image (VerifySizes)
CioSetFromImage ==
    /\ cio_ret = None
    /\ Len(TheCio.frames) = 1
    /\ TheCio.frames[1].extra_channels_ = <<>>
    /\ \E x \in 1 .. MaxSize, y \in 1 .. MaxSize :
        LET c == [TheCio EXCEPT !.frames[1].color_ = Image(x, y, 1)] IN
        cios' = [cios EXCEPT ![1] = Some(CodecInOut_SetSize(c, x, y).c)]
    /\ UNCHANGED cio_ret

\* a decoder of an animation appends a frame of the declared size
CioAppendFrame ==
    /\ cio_ret = None
    /\ Len(TheCio.frames) < MaxSizedFrames
    /\ TheCio.frames[1].color_ # EmptyImage
    /\ LET n == Len(TheCio.frames) + 1
           b == [ImageBundle_New(1) EXCEPT
                    !.color_ = Image(TheCio.frames[1].color_.xsize,
                                     TheCio.frames[1].color_.ysize, n)]
       IN  cios' = [cios EXCEPT ![1] = Some([TheCio EXCEPT !.frames = Append(@, b)])]
    /\ UNCHANGED cio_ret

\* a decoder installs the preview's pixels (preview_frame.SetFromImage)
CioSetPreview ==
    /\ cio_ret = None
    /\ TheCio.preview_frame.color_ = EmptyImage
    /\ \E x \in 1 .. MaxSize, y \in 1 .. MaxSize :
        cios' = [cios EXCEPT ![1] =
                    Some([TheCio EXCEPT !.preview_frame.color_ = Image(x, y, 9)])]
    /\ UNCHANGED cio_ret

\* void ImageBundle::SetExtraChannels on frame i: one plane of the frame's
\* size
CioSetExtraChannels ==
    /\ cio_ret = None
    /\ \E i \in 1 .. Len(TheCio.frames) :
        /\ TheCio.frames[i].color_ # EmptyImage
        /\ TheCio.frames[i].extra_channels_ = <<>>
        /\ cios' = [cios EXCEPT ![1] =
                Some([TheCio EXCEPT !.frames[i].extra_channels_ =
                        <<Image(TheCio.frames[i].color_.xsize,
                                TheCio.frames[i].color_.ysize, 4 + i)>>])]
    /\ UNCHANGED cio_ret

\* a caller shrinks the image: io.ShrinkTo(xsize, ysize) with a size no
\* larger than any frame
CallShrinkTo ==
    /\ cio_ret = None
    /\ \E xsize \in 0 .. MaxSize, ysize \in 0 .. MaxSize :
        /\ \A i \in 1 .. Len(TheCio.frames) :
              /\ xsize <= TheCio.frames[i].color_.xsize
              /\ ysize <= TheCio.frames[i].color_.ysize
        /\ LET r == CodecInOut_ShrinkTo(TheCio, xsize, ysize) IN
            /\ cios' = [cios EXCEPT ![1] = Some(r.c)]
            /\ cio_ret' = Some([op |-> "ShrinkTo", xsize |-> xsize,
                                ysize |-> ysize, aborted |-> r.aborted,
                                before |-> TheCio])

\* ShrinkTo returns to its caller, unless JXL_CHECK ended the process
ShrinkToReturn ==
    /\ cio_ret # None
    /\ ~Get(cio_ret).aborted
    /\ cio_ret' = None
    /\ UNCHANGED cios

-----------------------------------------------------------------------------
(***************************************************************************)
(* One ImageBundle with its storage.  heap maps a buffer to the pixel      *)
(* content it holds, or to Free; an image names its buffer (buf), and      *)
(* jpeg_data is None or Some of a payload with its declared width and      *)
(* height and the buffer of its coefficients.  bundle_copy is None or      *)
(* Some of the bundle a Copy() returned.                                   *)
(***************************************************************************)
Free == -1
\* pixel contents of a buffer
PixelValues == {0, 1}

\* How many extra channels a bundle gets at most.
MaxExtraChannels == 1
\* a bundle and its copy each own a color image, the extra channels and a payload
Buffers == 1 .. (2 * (MaxExtraChannels + 2))

\* operator new: the lowest free buffer
Alloc(h) == CHOOSE a \in Buffers : h[a] = Free /\ \A b \in Buffers : h[b] = Free => a <= b

\* a new buffer holding content v: [buf, heap]
NewBuffer(h, v) == [buf |-> Alloc(h), heap |-> [h EXCEPT ![Alloc(h)] = v]]

\* the buffers a bundle owns
RECURSIVE PlaneBuffers(_, _)
PlaneBuffers(planes, i) ==
    IF i > Len(planes) THEN {}
    ELSE {planes[i].buf} \cup PlaneBuffers(planes, i + 1)

OwnedBuffers(b) ==
    (({b.color_.buf} \cup PlaneBuffers(b.extra_channels_, 1)) \ {0})
        \cup (IF b.jpeg_data = None THEN {} ELSE {Get(b.jpeg_data).buf})

\* the destructor of an image or a payload gives its buffer back
Release(h, bufs) == [a \in Buffers |-> IF a \in bufs THEN Free ELSE h[a]]

\* CopyImage: a new image of the same size holding the same pixels
CopyImage(im, h) ==
    IF im.buf = 0 THEN [im |-> im, heap |-> h]
    ELSE LET n == NewBuffer(h, h[im.buf]) IN
         [im |-> [im EXCEPT !.buf = n.buf], heap |-> n.heap]

\* the loop of Copy over extra_channels_, from plane i on
RECURSIVE CopyPlanes(_, _, _, _)
CopyPlanes(planes, i, copied, h) ==
    IF i > Len(planes) THEN [planes |-> copied, heap |-> h]
    ELSE LET c == CopyImage(planes[i], h) IN
         CopyPlanes(planes, i + 1, Append(copied, c.im), c.heap)

\* make_unique<brunsli::JPEGData>(*jpeg_data), or nullptr
CopyJpegData(jpeg_data, h) ==
    IF jpeg_data = None THEN [jpeg_data |-> None, heap |-> h]
    ELSE LET n == NewBuffer(h, h[Get(jpeg_data).buf]) IN
         [jpeg_data |-> Some([Get(jpeg_data) EXCEPT !.buf = n.buf]),
          heap |-> n.heap]

\* Copy that hands the source's color image to the copy
ImageBundle_CopySharingColor(b, h) ==
    LET planes == CopyPlanes(b.extra_channels_, 1, <<>>, h)
        jpeg == CopyJpegData(b.jpeg_data, planes.heap)
    IN  [copy |-> [ImageBundle_New(b.metadata_) EXCEPT
                      !.color_ = b.color_,
                      !.c_current_ = b.c_current_,
                      !.extra_channels_ = planes.planes,
                      !.jpeg_data = jpeg.jpeg_data],
         heap |-> jpeg.heap]

\* ImageBundle Copy() const
ImageBundle_Copy(b, h) ==
    LET color == CopyImage(b.color_, h)
        planes == CopyPlanes(b.extra_channels_, 1, <<>>, color.heap)
        jpeg == CopyJpegData(b.jpeg_data, planes.heap)
    IN  [copy |-> [ImageBundle_New(b.metadata_) EXCEPT
                      !.color_ = color.im,
                      !.c_current_ = b.c_current_,
                      !.extra_channels_ = planes.planes,
                      !.jpeg_data = jpeg.jpeg_data],
         heap |-> jpeg.heap]

\* what a reader of bundle b sees: every buffer replaced by its content
BundleView(b, h) ==
    [metadata_ |-> b.metadata_,
     c_current_ |-> b.c_current_,
     color_ |-> [xsize |-> b.color_.xsize, ysize |-> b.color_.ysize,
                 pixels |-> IF b.color_.buf = 0 THEN Free ELSE h[b.color_.buf]],
     extra_channels_ |->
        [i \in 1 .. Len(b.extra_channels_) |->
            [xsize |-> b.extra_channels_[i].xsize,
             ysize |-> b.extra_channels_[i].ysize,
             pixels |-> h[b.extra_channels_[i].buf]]],
     jpeg_data |->
        IF b.jpeg_data = None THEN None
        ELSE Some([width |-> Get(b.jpeg_data).width,
                   height |-> Get(b.jpeg_data).height,
                   coeffs |-> h[Get(b.jpeg_data).buf]])]

BundleIdle ==
    /\ bundle = ImageBundle_New(1)
    /\ bundle_copy = None
    /\ heap = [a \in Buffers |-> Free]
    /\ bundle_ret = None

\* void SetFromImage(Image3F&& color, c_current): installs the color image,
\* of the extra channels' size when there are any, and drops a transcoded
\* payload
BundleSetFromImage ==
    /\ bundle_ret = None /\ bundle_copy = None
    /\ \E x \in 1 .. MaxSize, y \in 1 .. MaxSize, v \in PixelValues,
          c \in ColorEncodings :
        /\ \A i \in 1 .. Len(bundle.extra_channels_) :
              /\ bundle.extra_channels_[i].xsize = x
              /\ bundle.extra_channels_[i].ysize = y
        /\ LET dropped == {bundle.color_.buf} \cup
                          (IF bundle.jpeg_data = None THEN {}
                           ELSE {Get(bundle.jpeg_data).buf})
               n == NewBuffer(Release(heap, dropped), v)
           IN  /\ heap' = n.heap
               /\ bundle' = [bundle EXCEPT !.color_ = Image(x, y, n.buf),
                                            !.c_current_ = c,
                                            !.jpeg_data = None]
    /\ UNCHANGED <<bundle_copy, bundle_ret>>

\* void RemoveColor(): color_ = Image3F()
BundleRemoveColor ==
    /\ bundle_ret = None /\ bundle_copy = None
    /\ bundle.color_ # EmptyImage
    /\ heap' = Release(heap, {bundle.color_.buf})
    /\ bundle' = [bundle EXCEPT !.color_ = EmptyImage]
    /\ UNCHANGED <<bundle_copy, bundle_ret>>

\* the planes SetExtraChannels installs, from plane i on
RECURSIVE NewPlanes(_, _, _, _, _, _)
NewPlanes(n, x, y, v, planes, h) ==
    IF Len(planes) = n THEN [planes |-> planes, heap |-> h]
    ELSE LET b == NewBuffer(h, v) IN
         NewPlanes(n, x, y, v, Append(planes, Image(x, y, b.buf)), b.heap)

\* void SetExtraChannels(std::vector<ImageU>&& extra_channels): planes of
\* content 1, of the color image's size when there is one
BundleSetExtraChannels ==
    /\ bundle_ret = None /\ bundle_copy = None
    /\ \E n \in 1 .. MaxExtraChannels, x \in 1 .. MaxSize, y \in 1 .. MaxSize :
        /\ bundle.color_ # EmptyImage =>
              (x = bundle.color_.xsize /\ y = bundle.color_.ysize)
        /\ LET r == NewPlanes(n, x, y, 1, <<>>,
                              Release(heap, PlaneBuffers(bundle.extra_channels_, 1)))
           IN  /\ heap' = r.heap
               /\ bundle' = [bundle EXCEPT !.extra_channels_ = r.planes]
    /\ UNCHANGED <<bundle_copy, bundle_ret>>

\* a JPEG decoder assigns the public jpeg_data, of content 1:
\* jpeg_data = make_unique<brunsli::JPEGData>()
BundleSetJpegData ==
    /\ bundle_ret = None /\ bundle_copy = None
    /\ \E w \in 1 .. MaxSize, h \in 1 .. MaxSize :
        LET n == NewBuffer(Release(heap, IF bundle.jpeg_data = None THEN {}
                                         ELSE {Get(bundle.jpeg_data).buf}),
                           1)
        IN  /\ heap' = n.heap
            /\ bundle' = [bundle EXCEPT !.jpeg_data =
                            Some([width |-> w, height |-> h, buf |-> n.buf])]
    /\ UNCHANGED <<bundle_copy, bundle_ret>>

\* void ImageBundle::ShrinkTo(size_t xsize, size_t ysize) with a size no
\* larger than the color image, zero included
BundleShrinkTo ==
    /\ bundle_ret = None /\ bundle_copy = None
    /\ bundle.color_ # EmptyImage
    /\ \E x \in 0 .. bundle.color_.xsize, y \in 0 .. bundle.color_.ysize :
        /\ <<x, y>> # <<bundle.color_.xsize, bundle.color_.ysize>>
        /\ bundle' = ImageBundle_ShrinkTo(bundle, x, y)
    /\ UNCHANGED <<bundle_copy, heap, bundle_ret>>

\* a caller asks for the size: xsize() and ysize()
CallSize ==
    /\ bundle_ret = None /\ bundle_copy = None
    /\ bundle_ret' = Some([op |-> "size", xsize |-> ImageBundle_xsize(bundle),
                           ysize |-> ImageBundle_ysize(bundle)])
    /\ UNCHANGED <<bundle, bundle_copy, heap>>

\* the caller consumes the sizes
SizeReturn ==
    /\ bundle_ret # None
    /\ Get(bundle_ret).op = "size"
    /\ bundle_ret' = None
    /\ UNCHANGED <<bundle, bundle_copy, heap>>

\* C12: xsize() and ysize() are the transcoded payload's declared width and
\* height when a payload is present, whatever color image or extra channels
\* are installed; otherwise the color image's dimensions when it is not
\* empty; otherwise the first extra channel's; otherwise zero; and both come
\* from the same one of these sources.
C12_SizePriority ==
    (bundle_ret # None /\ Get(bundle_ret).op = "size") =>
        LET r == Get(bundle_ret)
            size == <<r.xsize, r.ysize>>
        IN  IF bundle.jpeg_data # None
            THEN size = <<Get(bundle.jpeg_data).width, Get(bundle.jpeg_data).height>>
            ELSE IF bundle.color_ # EmptyImage
            THEN size = <<bundle.color_.xsize, bundle.color_.ysize>>
            ELSE IF Len(bundle.extra_channels_) > 0
            THEN size = <<bundle.extra_channels_[1].xsize,
                          bundle.extra_channels_[1].ysize>>
            ELSE size = <<0, 0>>

\* C12 witness: a bundle holding a 2 x 2 color image, an extra channel and a
\* 1 x 2 transcoded payload reports 1 x 2.
C12_Witness ==
    /\ bundle_ret # None
    /\ Get(bundle_ret).op = "size"
    /\ bundle.jpeg_data # None
    /\ bundle.color_.xsize = 2 /\ bundle.color_.ysize = 2
    /\ Len(bundle.extra_channels_) > 0
    /\ Get(bundle_ret).xsize = 1 /\ Get(bundle_ret).ysize = 2

\* a caller takes a copy: ImageBundle copy = bundle.Copy()
CallCopy ==
    /\ bundle_ret = None /\ bundle_copy = None
    /\ LET r == ImageBundle_Copy(bundle, heap) IN
        /\ bundle_copy' = Some(r.copy)
        /\ heap' = r.heap
        /\ bundle_ret' = Some([op |-> "Copy", before |-> bundle,
                               view |-> BundleView(bundle, heap)])
    /\ UNCHANGED bundle

\* once the copy is taken, the owner of the source writes pixels,
\* extra-channel samples or payload coefficients through the source bundle
WriteThroughSource ==
    /\ bundle_copy # None
    /\ bundle_ret # None /\ Get(bundle_ret).op = "Copy"
    /\ \E a \in OwnedBuffers(bundle), v \in PixelValues :
        /\ v # heap[a]
        /\ heap' = [heap EXCEPT ![a] = v]
        /\ bundle_ret' = Some([op |-> "WriteSource", before |-> bundle,
                               view |-> BundleView(Get(bundle_copy), heap)])
    /\ UNCHANGED <<bundle, bundle_copy>>

\* the owner of the copy writes through the copy
WriteThroughCopy ==
    /\ bundle_copy # None
    /\ bundle_ret # None /\ Get(bundle_ret).op = "Copy"
    /\ \E a \in OwnedBuffers(Get(bundle_copy)), v \in PixelValues :
        /\ v # heap[a]
        /\ heap' = [heap EXCEPT ![a] = v]
        /\ bundle_ret' = Some([op |-> "WriteCopy", before |-> bundle,
                               view |-> BundleView(bundle, heap)])
    /\ UNCHANGED <<bundle, bundle_copy>>

\* C13: Copy() returns a bundle with the source's metadata back-reference and
\* current color encoding whose color image, extra channels (same count and
\* order) and transcoded payload (present iff present in the source) equal
\* the source's in content and live in storage of their own; Copy leaves the
\* source as it was; and a later write through the source or through the
\* copy is not seen through the other.
C13_CopyIsDeep ==
    /\ (bundle_ret # None /\ Get(bundle_ret).op = "Copy") =>
        LET r == Get(bundle_ret)
            cp == Get(bundle_copy)
        IN  /\ cp.metadata_ = bundle.metadata_
            /\ cp.c_current_ = bundle.c_current_
            /\ Len(cp.extra_channels_) = Len(bundle.extra_channels_)
            /\ (cp.jpeg_data # None) = (bundle.jpeg_data # None)
            /\ BundleView(cp, heap) = BundleView(bundle, heap)
            /\ bundle = r.before
            /\ BundleView(bundle, heap) = r.view
    /\ bundle_copy # None =>
            OwnedBuffers(Get(bundle_copy)) \cap OwnedBuffers(bundle) = {}
    /\ (bundle_ret # None /\ Get(bundle_ret).op = "WriteSource") =>
            BundleView(Get(bundle_copy), heap) = Get(bundle_ret).view
    /\ (bundle_ret # None /\ Get(bundle_ret).op = "WriteCopy") =>
            BundleView(bundle, heap) = Get(bundle_ret).view

\* C13 witness: a bundle with a color image, an extra channel and a
\* transcoded payload was copied, and a write through the copy has made the
\* copy's color pixels differ from the source's.
C13_Witness ==
    /\ bundle_copy # None
    /\ bundle_ret # None
    /\ Get(bundle_ret).op = "WriteCopy"
    /\ bundle.color_ # EmptyImage
    /\ Len(bundle.extra_channels_) > 0
    /\ bundle.jpeg_data # None
    /\ heap[Get(bundle_copy).color_.buf] # heap[bundle.color_.buf]

-----------------------------------------------------------------------------
(***************************************************************************)
(* FrameHeader::UpdateFlag.  flags is modelled FlagBits bits wide.         *)
(***************************************************************************)
\* FrameHeader::Flags
kNoise == 1
kPatches == 2
kSplines == 16
kSkipAdaptiveDCSmoothing == 128

\* Width of the flag mask in the model.
FlagBits == 8
FlagMasks == 0 .. (Pow2(FlagBits) - 1)

\* bit i of v
BitAt(v, i) == (v \div Pow2(i)) % 2

\* a | b, from bit i on
RECURSIVE BitOrFrom(_, _, _)
BitOrFrom(a, b, i) ==
    IF i = FlagBits THEN 0
    ELSE (IF BitAt(a, i) = 1 \/ BitAt(b, i) = 1 THEN Pow2(i) ELSE 0)
            + BitOrFrom(a, b, i + 1)
BitOr(a, b) == BitOrFrom(a, b, 0)

\* a & b, from bit i on
RECURSIVE BitAndFrom(_, _, _)
BitAndFrom(a, b, i) ==
    IF i = FlagBits THEN 0
    ELSE (IF BitAt(a, i) = 1 /\ BitAt(b, i) = 1 THEN Pow2(i) ELSE 0)
            + BitAndFrom(a, b, i + 1)
BitAnd(a, b) == BitAndFrom(a, b, 0)

\* ~a
BitNot(a) == Pow2(FlagBits) - 1 - a

\* UpdateFlag that toggles the flag when the condition holds
UpdateFlagToggling(h, condition, flag) ==
    IF condition
    THEN [h EXCEPT !.flags = BitOr(@, flag) - BitAnd(@, flag)]
    ELSE [h EXCEPT !.flags = BitAnd(@, BitNot(flag))]

\* void UpdateFlag(const bool condition, const uint64_t flag)
UpdateFlag(h, condition, flag) ==
    IF condition
    THEN [h EXCEPT !.flags = BitOr(@, flag)]
    ELSE [h EXCEPT !.flags = BitAnd(@, BitNot(flag))]

\* the masks callers pass: nothing, each named flag, and several at once
FlagArguments ==
    {0, kNoise, kPatches, kSplines, kUseDcFrame, kSkipAdaptiveDCSmoothing,
     kNoise + kPatches, kUseDcFrame + kSkipAdaptiveDCSmoothing,
     Pow2(FlagBits) - 1}

\* headers whose flags are updated: any mask on a default header and on a
\* DC frame
FlaggedFrameHeaders ==
    {[h EXCEPT !.flags = f] :
        h \in {FrameHeaderInit(None),
               [FrameHeaderInit(None) EXCEPT !.frame_type = kDCFrame,
                                             !.dc_level = 1,
                                             !.is_last = FALSE]},
        f \in FlagMasks}

FlagsInit ==
    /\ fh \in FlaggedFrameHeaders
    /\ fh_ret = None
    /\ fh_wr = None
    /\ fh_rd = None

\* an encoder calls UpdateFlag(condition, flag)
CallUpdateFlag ==
    /\ fh_ret = None
    /\ \E condition \in BOOLEAN, flag \in FlagArguments :
        /\ fh' = UpdateFlag(fh, condition, flag)
        /\ fh_ret' = Some([op |-> "UpdateFlag", condition |-> condition,
                           flag |-> flag, before |-> fh, repeated |-> FALSE,
                           first |-> fh])
    /\ UNCHANGED <<fh_wr, fh_rd>>

\* the encoder makes the same call once more
RepeatUpdateFlag ==
    /\ fh_ret # None
    /\ Get(fh_ret).op = "UpdateFlag"
    /\ ~Get(fh_ret).repeated
    /\ fh' = UpdateFlag(fh, Get(fh_ret).condition, Get(fh_ret).flag)
    /\ fh_ret' = Some([Get(fh_ret) EXCEPT !.repeated = TRUE, !.first = fh])
    /\ UNCHANGED <<fh_wr, fh_rd>>

\* the encoder goes on to other updates
UpdateFlagReturn ==
    /\ fh_ret # None
    /\ Get(fh_ret).op = "UpdateFlag"
    /\ fh_ret' = None
    /\ UNCHANGED <<fh, fh_wr, fh_rd>>

\* C14: after UpdateFlag(condition, flag) every bit of flag is set in flags
\* when condition is true and clear when it is false, whatever flags was
\* before; every bit of flags outside flag and every other field of the
\* header is as before; and making the same call again changes nothing.
C14_UpdateFlag ==
    (fh_ret # None /\ Get(fh_ret).op = "UpdateFlag") =>
        LET r == Get(fh_ret) IN
        /\ \A i \in 0 .. (FlagBits - 1) :
              IF (r.flag \div Pow2(i)) % 2 = 1
              THEN (fh.flags \div Pow2(i)) % 2 = (IF r.condition THEN 1 ELSE 0)
              ELSE (fh.flags \div Pow2(i)) % 2 = (r.before.flags \div Pow2(i)) % 2
        /\ fh.flags \in FlagMasks
        /\ [fh EXCEPT !.flags = 0] = [r.before EXCEPT !.flags = 0]
        /\ r.repeated => fh = r.first

\* C14 witness: UpdateFlag(false, kUseDcFrame | kSkipAdaptiveDCSmoothing) was
\* called twice on a DC frame that had kNoise, kUseDcFrame and kSplines set;
\* kNoise and kSplines are still set.
C14_Witness ==
    /\ fh_ret # None
    /\ Get(fh_ret).op = "UpdateFlag"
    /\ Get(fh_ret).repeated
    /\ ~Get(fh_ret).condition
    /\ Get(fh_ret).flag = kUseDcFrame + kSkipAdaptiveDCSmoothing
    /\ Get(fh_ret).before.flags = kNoise + kSplines + kUseDcFrame
    /\ fh.frame_type = kDCFrame
    /\ fh.flags = kNoise + kSplines

-----------------------------------------------------------------------------
(***************************************************************************)
(* YCbCrChromaSubsampling: the shifts, VisitFields in the reading          *)
(* direction, and the four pattern tests.                                  *)
(***************************************************************************)
\* size_t HShift(size_t c) const: the difference converted to size_t
HShift(d, c) == (d.maxhs_ - kHShift[d.channel_mode_[c + 1] + 1]) % Pow2(Bits64)
\* size_t VShift(size_t c) const
VShift(d, c) == (d.maxvs_ - kVShift[d.channel_mode_[c + 1] + 1]) % Pow2(Bits64)

\* visitor->Bits(2, 0, &channel_mode_[i])
kChannelModeBits == 2

\* Status VisitFields(Visitor*) with a reading visitor, from channel i on: a
\* failing read returns at once, the modes read so far stored and the maxima
\* not recomputed
RECURSIVE VisitFieldsRead(_, _, _, _)
VisitFieldsRead(d, stream, pos, i) ==
    IF i = 3 THEN [ok |-> TRUE, d |-> Recompute(d)]
    ELSE IF ~CanRead(stream, pos, kChannelModeBits) THEN [ok |-> FALSE, d |-> d]
    ELSE VisitFieldsRead(
            [d EXCEPT !.channel_mode_[i + 1] =
                            FromBits(stream, pos, kChannelModeBits)],
            stream, pos + kChannelModeBits, i + 1)

\* the streams a decoder reads the descriptor from: whole or cut short
ModeStreams == UNION {[1 .. n -> {0, 1}] : n \in 0 .. (3 * kChannelModeBits)}

\* a decoder reads the descriptor: VisitFields with a reading visitor
CallVisitFields ==
    /\ ycc_ret = None
    /\ \E stream \in ModeStreams :
        LET r == VisitFieldsRead(ycc, stream, 1, 0) IN
        /\ ycc' = r.d
        /\ ycc_ret' = Some([op |-> "VisitFields", hsample |-> stream,
                            vsample |-> <<>>, ok |-> r.ok, before |-> ycc])

\* C15: in every state reached by Set calls, successful or failing, and
\* VisitFields decodes, MaxHShift() and MaxVShift() are the maxima of kHShift
\* and kVShift over the three channel modes, so that HShift(c) and VShift(c)
\* are 0 or 1 for every channel; and a failing Set leaves the descriptor as
\* it was before the call.
C15_MaximaConsistent ==
    /\ ycc.maxhs_ = Max2(Max2(kHShift[ycc.channel_mode_[1] + 1],
                              kHShift[ycc.channel_mode_[2] + 1]),
                         kHShift[ycc.channel_mode_[3] + 1])
    /\ ycc.maxvs_ = Max2(Max2(kVShift[ycc.channel_mode_[1] + 1],
                              kVShift[ycc.channel_mode_[2] + 1]),
                         kVShift[ycc.channel_mode_[3] + 1])
    /\ \A c \in 0 .. 2 : HShift(ycc, c) \in {0, 1} /\ VShift(ycc, c) \in {0, 1}
    /\ (ycc_ret # None /\ Get(ycc_ret).op = "Set" /\ ~Get(ycc_ret).ok) =>
            ycc = Get(ycc_ret).before

\* What the code guarantees: when Set or VisitFields has just succeeded the
\* maxima are those of the channel modes and every shift is 0 or 1.
MaximaConsistentAfterSuccess ==
    (/\ ycc_ret # None
     /\ Get(ycc_ret).op \in {"Set", "VisitFields"}
     /\ Get(ycc_ret).ok) =>
        /\ ycc = Recompute(ycc)
        /\ \A c \in 0 .. 2 : HShift(ycc, c) \in {0, 1} /\ VShift(ycc, c) \in {0, 1}

\* bool Is422() const: the loop over c in {0, 2} (1 and 3 here) returns
\* false at the first channel that passes its test
Is422(d) ==
    ~ \E c \in {1, 3} :
        /\ kHShift[d.channel_mode_[c] + 1] = kHShift[d.channel_mode_[2] + 1] + 1
        /\ kVShift[d.channel_mode_[c] + 1] = kVShift[d.channel_mode_[2] + 1]

\* bool Is440() const, the same loop with the vertical test
Is440(d) ==
    ~ \E c \in {1, 3} :
        /\ kHShift[d.channel_mode_[c] + 1] = kHShift[d.channel_mode_[2] + 1]
        /\ kVShift[d.channel_mode_[c] + 1] = kVShift[d.channel_mode_[2] + 1] + 1

\* a caller classifies the descriptor: Is444(), Is420(), Is422(), Is440()
CallPatternTests ==
    /\ ycc_ret = None
    /\ ycc_ret' = Some([op |-> "Is", hsample |-> <<>>, vsample |-> <<>>,
                        ok |-> TRUE, before |-> ycc,
                        is444 |-> Is444(ycc), is420 |-> Is420(ycc),
                        is422 |-> Is422(ycc), is440 |-> Is440(ycc)])
    /\ UNCHANGED ycc

\* C17: for every assignment of the three channel modes at most one of
\* Is444(), Is420(), Is422() and Is440() is true; Is422() and Is440() are
\* false when the three modes are equal; Is422() only if both chroma
\* channels have half the luma's horizontal and all of its vertical
\* resolution, Is440() only if both have half its vertical and all of its
\* horizontal resolution.
C17_AtMostOnePattern ==
    (ycc_ret # None /\ Get(ycc_ret).op = "Is") =>
        LET r == Get(ycc_ret)
            m == ycc.channel_mode_
            h(c) == kHShift[m[c] + 1]
            v(c) == kVShift[m[c] + 1]
        IN  /\ Cardinality({t \in {"444", "420", "422", "440"} :
                    \/ t = "444" /\ r.is444
                    \/ t = "420" /\ r.is420
                    \/ t = "422" /\ r.is422
                    \/ t = "440" /\ r.is440}) <= 1
            /\ (m[1] = m[2] /\ m[3] = m[2]) => (~r.is422 /\ ~r.is440)
            /\ r.is422 => \A c \in {1, 3} : h(2) = h(c) + 1 /\ v(2) = v(c)
            /\ r.is440 => \A c \in {1, 3} : h(2) = h(c) /\ v(2) = v(c) + 1

\* What the code does: Is422() and Is440() are true unless some chroma
\* channel stands in one particular relation to the luma channel, so both
\* are true of every descriptor with three equal modes, where Is444() is
\* true as well.
EqualModesPassEveryLoopTest ==
    (/\ ycc_ret # None /\ Get(ycc_ret).op = "Is"
     /\ ycc.channel_mode_[1] = ycc.channel_mode_[2]
     /\ ycc.channel_mode_[3] = ycc.channel_mode_[2])
        => /\ Get(ycc_ret).is444
           /\ Get(ycc_ret).is422
           /\ Get(ycc_ret).is440

-----------------------------------------------------------------------------
(***************************************************************************)
(* Construction and moves of CodecInOut objects.  Both moves are           *)
(* defaulted: every member is moved on its own, an ImageBundle's           *)
(* metadata_ pointer being copied as it is.                                *)
(***************************************************************************)
\* CodecInOut(CodecInOut&&) = default: the new object takes metadata, the
\* preview frame and frames of the source, member by member, as they are.
\* The source after its members are moved out of: the moved-from vector of
\* frames is empty
MovedFrom(from) == [from EXCEPT !.frames = <<>>]

\* what frames of the source may hold after a move assignment, which leaves
\* the vector valid but unspecified: nothing, or what the target held
MoveAssignLeftovers(target) == {<<>>, target.frames}

\* void CheckMetadata() const, the back-reference conditions, for the object
\* at address a
CheckMetadata(c, a) ==
    /\ c.preview_frame.metadata_ = a
    /\ \A i \in 1 .. Len(c.frames) : c.frames[i].metadata_ = a

\* CodecInOut io; at a free address
Construct ==
    \E a \in Addresses :
        /\ cios[a] = None
        /\ cios' = [cios EXCEPT ![a] = Some(CodecInOut_New(a))]
        /\ cio_ret' = Some([op |-> "Construct", a |-> a, from |-> a])

\* CodecInOut io(std::move(other)); at a free address
MoveConstruct ==
    \E a \in Addresses, b \in Addresses :
        /\ cios[a] = None
        /\ cios[b] # None
        /\ cios' = [cios EXCEPT ![a] = cios[b],
                                ![b] = Some(MovedFrom(Get(cios[b])))]
        /\ cio_ret' = Some([op |-> "MoveConstruct", a |-> a, from |-> b])

\* io = std::move(other);
MoveAssign ==
    \E a \in Addresses, b \in Addresses :
        /\ a # b
        /\ cios[a] # None
        /\ cios[b] # None
        /\ \E left \in MoveAssignLeftovers(Get(cios[a])) :
            cios' = [cios EXCEPT
                        ![a] = cios[b],
                        ![b] = Some([Get(cios[b]) EXCEPT !.frames = left])]
        /\ cio_ret' = Some([op |-> "MoveAssign", a |-> a, from |-> b])

\* an object goes out of scope
Destroy ==
    \E a \in Addresses :
        /\ cios[a] # None
        /\ cios' = [cios EXCEPT ![a] = None]
        /\ cio_ret' = Some([op |-> "Destroy", a |-> a, from |-> a])

\* C16: after any constructions, move constructions and move assignments,
\* every live CodecInOut has at least one frame, and its preview frame and
\* every bundle in frames hold the address of that object's own metadata.m.
C16_BackReferences ==
    \A a \in Addresses :
        cios[a] # None =>
            /\ Len(Get(cios[a]).frames) >= 1
            /\ Get(cios[a]).preview_frame.metadata_ = a
            /\ \A i \in 1 .. Len(Get(cios[a]).frames) :
                    Get(cios[a]).frames[i].metadata_ = a

\* What the code guarantees: an object that was just constructed, not
\* moved into, has one frame and passes the back-reference conditions of
\* CheckMetadata.
ConstructedPassesCheckMetadata ==
    (cio_ret # None /\ Get(cio_ret).op = "Construct") =>
        /\ Len(Get(cios[Get(cio_ret).a]).frames) = 1
        /\ CheckMetadata(Get(cios[Get(cio_ret).a]), Get(cio_ret).a)

\* A move-constructed object holds the preview back-reference of the object
\* it was moved from, which is left without frames.
MoveConstructedKeepsSourcePointers ==
    (cio_ret # None /\ Get(cio_ret).op = "MoveConstruct") =>
        /\ Get(cios[Get(cio_ret).a]).preview_frame.metadata_
                = Get(cios[Get(cio_ret).from]).preview_frame.metadata_
        /\ Get(cios[Get(cio_ret).from]).frames = <<>>

-----------------------------------------------------------------------------
InitVD ==
    VDIdle /\ U32Idle /\ NameIdle /\ YccIdle /\ HintsIdle
    /\ IoIdle /\ FrameIdle /\ CioIdle /\ BundleIdle
NextVD ==
    \/ SetDecLimits
        /\ UNCHANGED <<u32Vars, nmVars, yccVars, hintVars, ioVars, fhVars, cioVars, bundleVars>>
    \/ CallVerifyDimensions
        /\ UNCHANGED <<u32Vars, nmVars, yccVars, hintVars, ioVars, fhVars, cioVars, bundleVars>>
    \/ VerifyDimensionsReturn
        /\ UNCHANGED <<u32Vars, nmVars, yccVars, hintVars, ioVars, fhVars, cioVars, bundleVars>>
SpecVD == InitVD /\ [][NextVD]_vars

InitU32 ==
    VDIdle /\ U32Init /\ NameIdle /\ YccIdle /\ HintsIdle
    /\ IoIdle /\ FrameIdle /\ CioIdle /\ BundleIdle
NextU32 ==
    \/ U32Encode
        /\ UNCHANGED <<vdVars, nmVars, yccVars, hintVars, ioVars, fhVars, cioVars, bundleVars>>
    \/ U32Decode
        /\ UNCHANGED <<vdVars, nmVars, yccVars, hintVars, ioVars, fhVars, cioVars, bundleVars>>
SpecU32 == InitU32 /\ [][NextU32]_vars

InitName ==
    VDIdle /\ U32Idle /\ NameInit /\ YccIdle /\ HintsIdle
    /\ IoIdle /\ FrameIdle /\ CioIdle /\ BundleIdle
NextName ==
    \/ NameWrite
        /\ UNCHANGED <<vdVars, u32Vars, yccVars, hintVars, ioVars, fhVars, cioVars, bundleVars>>
    \/ NameRead
        /\ UNCHANGED <<vdVars, u32Vars, yccVars, hintVars, ioVars, fhVars, cioVars, bundleVars>>
SpecName == InitName /\ [][NextName]_vars

InitYcc ==
    VDIdle /\ U32Idle /\ NameIdle /\ YccIdle /\ HintsIdle
    /\ IoIdle /\ FrameIdle /\ CioIdle /\ BundleIdle
NextYcc ==
    \/ CallSet
        /\ UNCHANGED <<vdVars, u32Vars, nmVars, hintVars, ioVars, fhVars, cioVars, bundleVars>>
    \/ CallVisitFields
        /\ UNCHANGED <<vdVars, u32Vars, nmVars, hintVars, ioVars, fhVars, cioVars, bundleVars>>
    \/ CallPatternTests
        /\ UNCHANGED <<vdVars, u32Vars, nmVars, hintVars, ioVars, fhVars, cioVars, bundleVars>>
    \/ SetReturn
        /\ UNCHANGED <<vdVars, u32Vars, nmVars, hintVars, ioVars, fhVars, cioVars, bundleVars>>
SpecYcc == InitYcc /\ [][NextYcc]_vars

InitHints ==
    VDIdle /\ U32Idle /\ NameIdle /\ YccIdle /\ HintsIdle
    /\ IoIdle /\ FrameIdle /\ CioIdle /\ BundleIdle
NextHints ==
    \/ CallAdd
        /\ UNCHANGED <<vdVars, u32Vars, nmVars, yccVars, ioVars, fhVars, cioVars, bundleVars>>
    \/ CallForeach
        /\ UNCHANGED <<vdVars, u32Vars, nmVars, yccVars, ioVars, fhVars, cioVars, bundleVars>>
    \/ ForeachReturn
        /\ UNCHANGED <<vdVars, u32Vars, nmVars, yccVars, ioVars, fhVars, cioVars, bundleVars>>
SpecHints == InitHints /\ [][NextHints]_vars

InitIo ==
    VDIdle /\ U32Idle /\ NameIdle /\ YccIdle /\ HintsIdle
    /\ IoIdle /\ FrameIdle /\ CioIdle /\ BundleIdle
NextIo ==
    \/ SetPreview
        /\ UNCHANGED <<vdVars, u32Vars, nmVars, yccVars, hintVars, fhVars, cioVars, bundleVars>>
    \/ SetFrameFromImage
        /\ UNCHANGED <<vdVars, u32Vars, nmVars, yccVars, hintVars, fhVars, cioVars, bundleVars>>
    \/ AppendFrame
        /\ UNCHANGED <<vdVars, u32Vars, nmVars, yccVars, hintVars, fhVars, cioVars, bundleVars>>
    \/ CallTransformTo
        /\ UNCHANGED <<vdVars, u32Vars, nmVars, yccVars, hintVars, fhVars, cioVars, bundleVars>>
    \/ TransformToReturn
        /\ UNCHANGED <<vdVars, u32Vars, nmVars, yccVars, hintVars, fhVars, cioVars, bundleVars>>
SpecIo == InitIo /\ [][NextIo]_vars

InitFrame ==
    VDIdle /\ U32Idle /\ NameIdle /\ YccIdle /\ HintsIdle
    /\ IoIdle /\ FrameInit /\ CioIdle /\ BundleIdle
NextFrame ==
    \/ CallCanBeReferenced
        /\ UNCHANGED <<vdVars, u32Vars, nmVars, yccVars, hintVars, ioVars, cioVars, bundleVars>>
    \/ CallToFrameDimensions
        /\ UNCHANGED <<vdVars, u32Vars, nmVars, yccVars, hintVars, ioVars, cioVars, bundleVars>>
SpecFrame == InitFrame /\ [][NextFrame]_vars

InitFH ==
    VDIdle /\ U32Idle /\ NameIdle /\ YccIdle /\ HintsIdle
    /\ IoIdle /\ FHInit /\ CioIdle /\ BundleIdle
NextFH ==
    \/ CallWriteFrameHeader
        /\ UNCHANGED <<vdVars, u32Vars, nmVars, yccVars, hintVars, ioVars, cioVars, bundleVars>>
    \/ CallReadFrameHeader
        /\ UNCHANGED <<vdVars, u32Vars, nmVars, yccVars, hintVars, ioVars, cioVars, bundleVars>>
SpecFH == InitFH /\ [][NextFH]_vars

InitShrink ==
    VDIdle /\ U32Idle /\ NameIdle /\ YccIdle /\ HintsIdle
    /\ IoIdle /\ FrameIdle /\ CioInit /\ BundleIdle
NextShrink ==
    \/ CioSetFromImage
        /\ UNCHANGED <<vdVars, u32Vars, nmVars, yccVars, hintVars, ioVars, fhVars, bundleVars>>
    \/ CioAppendFrame
        /\ UNCHANGED <<vdVars, u32Vars, nmVars, yccVars, hintVars, ioVars, fhVars, bundleVars>>
    \/ CioSetPreview
        /\ UNCHANGED <<vdVars, u32Vars, nmVars, yccVars, hintVars, ioVars, fhVars, bundleVars>>
    \/ CioSetExtraChannels
        /\ UNCHANGED <<vdVars, u32Vars, nmVars, yccVars, hintVars, ioVars, fhVars, bundleVars>>
    \/ CallShrinkTo
        /\ UNCHANGED <<vdVars, u32Vars, nmVars, yccVars, hintVars, ioVars, fhVars, bundleVars>>
    \/ ShrinkToReturn
        /\ UNCHANGED <<vdVars, u32Vars, nmVars, yccVars, hintVars, ioVars, fhVars, bundleVars>>
SpecShrink == InitShrink /\ [][NextShrink]_vars

InitBundle ==
    VDIdle /\ U32Idle /\ NameIdle /\ YccIdle /\ HintsIdle
    /\ IoIdle /\ FrameIdle /\ CioIdle /\ BundleIdle
NextBundle ==
    \/ BundleSetFromImage
        /\ UNCHANGED <<vdVars, u32Vars, nmVars, yccVars, hintVars, ioVars, fhVars, cioVars>>
    \/ BundleRemoveColor
        /\ UNCHANGED <<vdVars, u32Vars, nmVars, yccVars, hintVars, ioVars, fhVars, cioVars>>
    \/ BundleSetExtraChannels
        /\ UNCHANGED <<vdVars, u32Vars, nmVars, yccVars, hintVars, ioVars, fhVars, cioVars>>
    \/ BundleSetJpegData
        /\ UNCHANGED <<vdVars, u32Vars, nmVars, yccVars, hintVars, ioVars, fhVars, cioVars>>
    \/ BundleShrinkTo
        /\ UNCHANGED <<vdVars, u32Vars, nmVars, yccVars, hintVars, ioVars, fhVars, cioVars>>
    \/ CallSize
        /\ UNCHANGED <<vdVars, u32Vars, nmVars, yccVars, hintVars, ioVars, fhVars, cioVars>>
    \/ SizeReturn
        /\ UNCHANGED <<vdVars, u32Vars, nmVars, yccVars, hintVars, ioVars, fhVars, cioVars>>
    \/ CallCopy
        /\ UNCHANGED <<vdVars, u32Vars, nmVars, yccVars, hintVars, ioVars, fhVars, cioVars>>
    \/ WriteThroughSource
        /\ UNCHANGED <<vdVars, u32Vars, nmVars, yccVars, hintVars, ioVars, fhVars, cioVars>>
    \/ WriteThroughCopy
        /\ UNCHANGED <<vdVars, u32Vars, nmVars, yccVars, hintVars, ioVars, fhVars, cioVars>>
SpecBundle == InitBundle /\ [][NextBundle]_vars

InitFlags ==
    VDIdle /\ U32Idle /\ NameIdle /\ YccIdle /\ HintsIdle
    /\ IoIdle /\ FlagsInit /\ CioIdle /\ BundleIdle
NextFlags ==
    \/ CallUpdateFlag
        /\ UNCHANGED <<vdVars, u32Vars, nmVars, yccVars, hintVars, ioVars, cioVars, bundleVars>>
    \/ RepeatUpdateFlag
        /\ UNCHANGED <<vdVars, u32Vars, nmVars, yccVars, hintVars, ioVars, cioVars, bundleVars>>
    \/ UpdateFlagReturn
        /\ UNCHANGED <<vdVars, u32Vars, nmVars, yccVars, hintVars, ioVars, cioVars, bundleVars>>
SpecFlags == InitFlags /\ [][NextFlags]_vars

InitMove ==
    VDIdle /\ U32Idle /\ NameIdle /\ YccIdle /\ HintsIdle
    /\ IoIdle /\ FrameIdle /\ CioIdle /\ BundleIdle
NextMove ==
    \/ Construct
        /\ UNCHANGED <<vdVars, u32Vars, nmVars, yccVars, hintVars, ioVars, fhVars, bundleVars>>
    \/ MoveConstruct
        /\ UNCHANGED <<vdVars, u32Vars, nmVars, yccVars, hintVars, ioVars, fhVars, bundleVars>>
    \/ MoveAssign
        /\ UNCHANGED <<vdVars, u32Vars, nmVars, yccVars, hintVars, ioVars, fhVars, bundleVars>>
    \/ Destroy
        /\ UNCHANGED <<vdVars, u32Vars, nmVars, yccVars, hintVars, ioVars, fhVars, bundleVars>>
SpecMove == InitMove /\ [][NextMove]_vars

=============================================================================
